---- MODULE Spec2Model ----
(***************************************************************************)
(* A model of the retrieval-augmented chat core of diarum:                 *)
(*   - ChatService.StreamChat and its SSE relay (internal/chat/service.go) *)
(*   - the vector build endpoints of RegisterAIRoutes (internal/api) and   *)
(*     the registry of build locks behind them                             *)
(*   - the stats, settings and models endpoints of RegisterAIRoutes, with  *)
(*     ConfigService.SetBatch (internal/config) and fetchModels            *)
(*   - ChatService.QueryRelevantDiaries and the logger's level filter      *)
(*   - the authentication of those endpoints, ConfigService's token check  *)
(*     and its user_settings rows under concurrent Set and Delete          *)
(*   - the browser side: the SSE generator streamChat, the assistant       *)
(*     page's send handler and the editor's slash-command menu             *)
(* The embedding package (BuildAllVectors, BuildIncrementalVectors,        *)
(* GetVectorStats, QuerySimilar) is modelled from the specification,       *)
(* sections 4.1, 4.2 and 5.                                                *)
(***************************************************************************)
EXTENDS Integers, Sequences, FiniteSets, TLC

VARIABLES
  \* ---- chat: ChatService.StreamChat ------------------------------------
  aiConfig,        \* the owner's user_settings values of the three ai.* keys
  embeddingReady,  \* ChatService.embeddingService != nil
  stored,          \* number of ai_messages records of the conversation
  available,       \* number of the owner's entries retrieval can rank
  logLevel,        \* logger.currentLevel
  parseWarnings,   \* "failed to parse stream chunk" lines written to the log
  pc,              \* position of the StreamChat call
  cancelled,       \* ctx.Done() is closed
  sinkAtCancel,    \* number of sink calls made when ctx was cancelled
  historyLoaded,   \* GetConversationHistory returned no error
  retrievalErr,    \* QuerySimilar returned an error (the logged warning)
  response,        \* the provider's response: status, captured body, and
                   \* how the scanner loop over its body ended
  messages,        \* ChatRequest.Messages sent to the provider
  refs,            \* referencedDiaryIDs
  diariesUsed,     \* the diaries handed to buildSystemPrompt
  scanned,         \* the lines scanner.Scan() has returned, in order
  buf,             \* complete lines read from resp.Body, not yet scanned
  fullResponse,    \* strings.Builder of processStreamResponse
  sink,            \* the calls made on the StreamWriter, in order
  calls,           \* call counters: retrieval, history, provider
  ret,             \* what StreamChat returned
  \* ---- index: the vector build endpoints ------------------------------
  entries,         \* the entry source: content of each owner's entries
  vstore,          \* the Vector Store: a set of EmbeddingRecords
  locks,           \* owners whose build lock is held
  req,             \* the build requests, each with its position and counts
  embedCalls,      \* embedding provider calls made, per owner
  edits,           \* entry edits made so far
  registry,        \* owners with an entry in the build-lock registry
  reclaim,         \* how the registry reclaims entries: "release" (reference
                   \* counting) or "eviction" (time-based)
  \* ---- search: one QueryRelevantDiaries call --------------------------
  qRecords,        \* the owner's EmbeddingRecords, each with its entry
  qQuery,          \* the query text, as the vector the provider embeds it to
  qLimit,          \* the limit argument
  qOut,            \* the call's position and what it returned
  \* ---- stats: one GET /api/ai/vectors/stats request --------------------
  sIndex,          \* the owner's entries and EmbeddingRecords, with timestamps
  sOut,            \* the request's position and the handler's answer
  \* ---- settings: PUT /api/ai/settings requests -------------------------
  setVersion,      \* the SetBatch the build holds: "perkey" or "transactional"
  settings,        \* the user_settings values of the user's five ai.* keys
  put,             \* the PUT requests, each with its position and answer
  \* ---- models: one POST /api/ai/models request --------------------------
  mIn,             \* the request body and what the upstream will do
  mOut,            \* the request's position, the upstream calls, the answer
  \* ---- the callers of the core ------------------------------------------
  tok,             \* one ValidateTokenAndGetUser call: its inputs and result
  userSettings,    \* user_settings rows of one key, and the calls on them
  gen,             \* one streamChat generator of the browser and its reads
  page,            \* the assistant page: its state and the stream it reads
  menu,            \* the slash-command menu of the editor and its timers
  auth,            \* requests to the AI endpoints, with or without a user
  writer           \* the caller's StreamWriter: the number of its first
                   \* Write that returns an error, 0 when none does

chatVars == <<aiConfig, embeddingReady, stored, available, logLevel, pc,
              cancelled, sinkAtCancel, historyLoaded, retrievalErr, response,
              messages, refs, diariesUsed, scanned, buf, fullResponse, sink,
              calls, ret, parseWarnings>>

buildVars == <<entries, vstore, locks, req, embedCalls, edits, registry,
               reclaim>>

queryVars == <<qRecords, qQuery, qLimit, qOut>>

\* the variables of the stats, settings and models endpoints
auxVars == <<sIndex, sOut, setVersion, settings, put, mIn, mOut>>

\* the variables of the callers: token check, settings store, browser
extVars == <<tok, userSettings, gen, page, menu, auth, writer>>

vars == <<chatVars, buildVars, queryVars, auxVars, extVars>>

-----------------------------------------------------------------------------
(* Bounds                                                                  *)

MaxLines == 3     \* lines the upstream sends in one response
MaxRead == 2      \* lines one Read of resp.Body can deliver
MaxDiaries == 2   \* entries retrieval can return
MaxOver == 1      \* stored messages beyond the history limit
MaxEntries == 2   \* journal entries per owner
MaxEdits == 1     \* entry edits in one run

(* Program constants                                                       *)

HistoryLimit == 20   \* GetConversationHistory(conversationID, 20)
RetrievalLimit == 5  \* QuerySimilar(ctx, userID, message, 5)
StatusOK == 200      \* http.StatusOK
LevelInfo == 1       \* logger.LevelInfo, the level when LOG_LEVEL is unset
LevelWarn == 2       \* logger.LevelWarn
LevelError == 3      \* logger.LevelError

-----------------------------------------------------------------------------
(* Helpers                                                                 *)

Min(a, b) == IF a < b THEN a ELSE b

RECURSIVE Concat(_)
\* strings.Builder contents after writing every element of ss, in order
Concat(ss) == IF ss = <<>> THEN <<>> ELSE Head(ss) \o Concat(Tail(ss))

SeqsUpTo(S, n) == UNION {[1..k -> S] : k \in 0..n}

NoErr == [kind |-> "none", status |-> 0, body |-> ""]
Err(k) == [kind |-> k, status |-> 0, body |-> ""]

-----------------------------------------------------------------------------
(* Configuration: ConfigService.Get / GetString                            *)

AIKeys == {"ai.api_key", "ai.base_url", "ai.chat_model"}

NilValue == [type |-> "nil", str |-> ""]
NoRecord == [type |-> "norecord", str |-> ""]
StoredValues == {[type |-> "string", str |-> ""],
                 [type |-> "string", str |-> "set"],
                 [type |-> "bool", str |-> ""]}

\* defaults.go is not part of the sources; the ai.* keys have no default
GetDefault(key) == NilValue

\* Get: the record's value, or the default when no record is found
Get(key) == IF aiConfig[key] = NoRecord THEN GetDefault(key) ELSE aiConfig[key]

\* GetString: "" for nil and for every value that is not a string
GetString(key) == IF Get(key).type = "string" THEN Get(key).str ELSE ""

ConfigurationMissing_ModelUnchecked ==
  \/ GetString("ai.api_key") = ""
  \/ GetString("ai.base_url") = ""

\* StreamChat's three guards on apiKey, baseURL and chatModel
ConfigurationMissing ==
  \/ GetString("ai.api_key") = ""
  \/ GetString("ai.base_url") = ""
  \/ GetString("ai.chat_model") = ""

-----------------------------------------------------------------------------
(* Retrieval: EmbeddingService.QuerySimilar (specification, section 4.2)   *)

Diary(i) == [id |-> i, date |-> i, mood |-> IF i = 1 THEN "" ELSE "glad",
             weather |-> "", content |-> i]

\* an error with no results (the query could not be embedded), or at most
\* `limit` of the owner's `available` entries in rank order
QuerySimilar(limit) ==
  {[err |-> TRUE, res |-> <<>>]} \cup
  {[err |-> FALSE, res |-> [i \in 1..k |-> Diary(i)]] :
     k \in 0..Min(available, limit)}

AfterRetrieval_Propagate(q) ==
  [abort |-> embeddingReady /\ q.err,
   diaries |-> IF embeddingReady THEN q.res ELSE <<>>,
   ids |-> IF embeddingReady /\ ~q.err
           THEN [i \in 1..Len(q.res) |-> q.res[i].id] ELSE <<>>]

\* StreamChat, "Query relevant diaries": a retrieval error is logged, the
\* chat goes on with the diaries QuerySimilar returned and no referenced ids
AfterRetrieval(q) ==
  [abort |-> FALSE,
   diaries |-> IF embeddingReady THEN q.res ELSE <<>>,
   ids |-> IF embeddingReady /\ ~q.err
           THEN [i \in 1..Len(q.res) |-> q.res[i].id] ELSE <<>>]

-----------------------------------------------------------------------------
(* Messages: buildSystemPrompt, GetConversationHistory                     *)

Msg(role, src, idx, blocks) ==
  [role |-> role, src |-> src, idx |-> idx, blocks |-> blocks]

\* one rendered block per diary; Mood and Weather lines only when non-empty
RenderEntry(i, d) ==
  [n |-> i, date |-> d.date, hasMood |-> d.mood # "",
   hasWeather |-> d.weather # "", content |-> d.content]

buildSystemPrompt_EntriesAlways(diaries) ==
  Msg("system", "persona+entries",
      0, [i \in 1..Len(diaries) |-> RenderEntry(i, diaries[i])])

\* the persona preamble, then the entries or the no-relevant-entries notice
buildSystemPrompt(diaries) ==
  Msg("system",
      IF Len(diaries) > 0 THEN "persona+entries" ELSE "persona+no_entries",
      0, [i \in 1..Len(diaries) |-> RenderEntry(i, diaries[i])])

\* the i-th ai_messages record of the conversation, by creation time
StoredMessage(i) ==
  Msg(IF i % 2 = 1 THEN "user" ELSE "assistant", "stored", i, <<>>)

\* FindRecordsByFilter(..., sort "created", limit, offset 0): ascending by
\* creation time, cut to the first `limit` records
GetConversationHistory(n, limit) ==
  [i \in 1..Min(n, limit) |-> StoredMessage(i)]

UserMessage == Msg("user", "caller", 0, <<>>)

BuildMessages_PromptLast(diaries, histOk) ==
  (IF histOk THEN GetConversationHistory(stored, HistoryLimit) ELSE <<>>)
    \o <<UserMessage, buildSystemPrompt(diaries)>>

\* StreamChat, "Build messages": system prompt, history unless its load
\* failed, then the current message
BuildMessages(diaries, histOk) ==
  <<buildSystemPrompt(diaries)>>
    \o (IF histOk THEN GetConversationHistory(stored, HistoryLimit) ELSE <<>>)
    \o <<UserMessage>>

-----------------------------------------------------------------------------
(* The upstream response: callStreamingAPI                                 *)

Statuses == {200, 204, 500}
Bodies == {"", "quota exceeded"}

CheckStatus_Any2xx(status, body) ==
  IF status >= 300
  THEN [kind |-> "UpstreamBadStatus", status |-> status, body |-> body]
  ELSE NoErr

\* resp.StatusCode != http.StatusOK: "API returned status %d: %s"
CheckStatus(status, body) ==
  IF status # StatusOK
  THEN [kind |-> "UpstreamBadStatus", status |-> status, body |-> body]
  ELSE NoErr

-----------------------------------------------------------------------------
(* The SSE lines of the response body: processStreamResponse               *)

H == <<"H">>
I == <<"i", "!">>

Line(p, k, cs) == [prefixed |-> p, kind |-> k, choices |-> cs]

\* a line is `data: ` + payload or has no such prefix; the payload is
\* [DONE], text json.Unmarshal rejects, or a chunk with its choices' contents
Lines ==
  {Line(TRUE, "done", <<>>), Line(TRUE, "bad", <<>>),
   Line(TRUE, "chunk", <<<<>>>>), Line(TRUE, "chunk", <<H>>),
   Line(TRUE, "chunk", <<I>>), Line(TRUE, "chunk", <<<<>>, H>>),
   Line(FALSE, "chunk", <<H>>)}

\* strings.HasPrefix(line, "data: ")
HasDataPrefix(line) == line.prefixed

IsDone_Never(line) == FALSE

\* data == "[DONE]"
IsDone(line) == line.kind = "done"

\* json.Unmarshal([]byte(data), &streamResp)
Unmarshal(line) ==
  IF line.kind = "chunk" THEN [ok |-> TRUE, choices |-> line.choices]
  ELSE [ok |-> FALSE, choices |-> <<>>]

\* the content the loop body forwards for a line that is not [DONE]:
\* Choices[0].Delta.Content of a parsed `data: ` line, "" for any other
DeltaContent(line) ==
  LET r == Unmarshal(line) IN
  IF ~HasDataPrefix(line) \/ ~r.ok THEN <<>>
  ELSE IF Len(r.choices) > 0 THEN r.choices[1] ELSE <<>>

\* logger.Warn and its siblings print only when currentLevel <= their level
Logs(level) == logLevel <= level

WriteEv(c) == [op |-> "write", content |-> c]
FlushEv == [op |-> "flush", content |-> <<>>]

Forward_NoFlush(c) == <<WriteEv(c)>>

\* writer.Write("data: " + json({"content": content}) + "\n\n"); writer.Flush()
Forward(c) == <<WriteEv(c), FlushEv>>

\* the n-th writer.Write of the relay returns an error
WriteFails(n) == writer # 0 /\ n >= writer

\* the Write calls among the sink's events
Writes(events) == Len(SelectSeq(events, LAMBDA e : e.op = "write"))

StopsOnWriteError_Always(failed) == failed

\* whether the loop returns after a writer.Write: its results are
\* discarded, the loop goes on whatever it returned
StopsOnWriteError(failed) == FALSE

StreamChatReturn_NoRefs(text, err, ids) ==
  IF err # NoErr THEN [fullText |-> <<>>, refs |-> <<>>, err |-> err]
  ELSE [fullText |-> text, refs |-> <<>>, err |-> NoErr]

\* StreamChat's return after callStreamingAPI: on an error the text is dropped
StreamChatReturn(text, err, ids) ==
  IF err # NoErr THEN [fullText |-> <<>>, refs |-> <<>>, err |-> err]
  ELSE [fullText |-> text, refs |-> ids, err |-> NoErr]

-----------------------------------------------------------------------------
(* ChatService.StreamChat                                                  *)

MessagesAfter_SavesExchange(n, returned) == IF returned THEN n + 2 ELSE n

\* the ai_messages records of the conversation after a step of StreamChat,
\* `returned` when the step is its return: StreamChat reads the records
\* (GetConversationHistory) and calls neither SaveMessage nor any other
\* write of the Dao
MessagesAfter(n, returned) == n

NoRet == [fullText |-> <<>>, refs |-> <<>>, err |-> Err("pending")]

StoredSizes == {0} \cup HistoryLimit..(HistoryLimit + MaxOver)

ChatStart(cfg, ready, n, avail, level) ==
  /\ aiConfig = cfg
  /\ embeddingReady = ready
  /\ stored = n
  /\ available = avail
  /\ logLevel = level
  /\ parseWarnings = 0
  /\ pc = "init"
  /\ cancelled = FALSE
  /\ sinkAtCancel = 0
  /\ historyLoaded = FALSE
  /\ retrievalErr = FALSE
  /\ response = [status |-> 0, body |-> "", ended |-> ""]
  /\ messages = <<>>
  /\ refs = <<>>
  /\ diariesUsed = <<>>
  /\ scanned = <<>>
  /\ buf = <<>>
  /\ fullResponse = <<>>
  /\ sink = <<>>
  /\ calls = [retrieval |-> 0, history |-> 0, provider |-> 0]
  /\ ret = NoRet

ChatInit ==
  \E cfg \in [AIKeys -> StoredValues \cup {NoRecord}], ready \in BOOLEAN,
     n \in StoredSizes : ChatStart(cfg, ready, n, MaxDiaries, LevelInfo)

\* StreamChat up to client.Do: configuration, retrieval, messages, request
StreamChat ==
  /\ pc = "init"
  /\ IF ConfigurationMissing
     THEN /\ pc' = "done"
          /\ ret' = StreamChatReturn(<<>>, Err("ConfigurationMissing"), <<>>)
          /\ UNCHANGED <<historyLoaded, retrievalErr, messages, refs,
                         diariesUsed, calls>>
     ELSE \E q \in QuerySimilar(RetrievalLimit), histOk \in BOOLEAN :
            LET a == AfterRetrieval(q) IN
            IF a.abort
            THEN /\ pc' = "done"
                 /\ ret' = StreamChatReturn(<<>>, Err("RetrievalFailed"), <<>>)
                 /\ calls' = [calls EXCEPT !.retrieval = @ + 1]
                 /\ retrievalErr' = (embeddingReady /\ q.err)
                 /\ UNCHANGED <<historyLoaded, messages, refs, diariesUsed>>
            ELSE /\ pc' = "await"
                 /\ diariesUsed' = a.diaries
                 /\ refs' = a.ids
                 /\ historyLoaded' = histOk
                 /\ retrievalErr' = (embeddingReady /\ q.err)
                 /\ messages' = BuildMessages(a.diaries, histOk)
                 /\ calls' = [retrieval |-> IF embeddingReady THEN 1 ELSE 0,
                              history |-> 1, provider |-> 1]
                 /\ ret' = ret
  /\ UNCHANGED <<aiConfig, embeddingReady, available, logLevel, cancelled, sinkAtCancel,
                 response, scanned, buf, fullResponse, sink>>
  /\ stored' = MessagesAfter(stored, pc' = "done")
  /\ UNCHANGED <<parseWarnings, buildVars, queryVars, auxVars, extVars>>

\* the caller cancels ctx while the request or the stream is outstanding
Cancel ==
  /\ pc \in {"await", "stream"}
  /\ ~cancelled
  /\ cancelled' = TRUE
  /\ sinkAtCancel' = Len(sink)
  /\ UNCHANGED <<aiConfig, embeddingReady, stored, available, logLevel, pc, historyLoaded,
                 retrievalErr, response, messages, refs, diariesUsed, scanned,
                 buf, fullResponse, sink, calls, ret>>
  /\ UNCHANGED <<parseWarnings, buildVars, queryVars, auxVars, extVars>>

\* client.Do fails: transport failure, or ctx cancelled
SendFails ==
  /\ pc = "await"
  /\ pc' = "done"
  /\ ret' = StreamChatReturn(<<>>,
              Err(IF cancelled THEN "Canceled" ELSE "UpstreamUnavailable"), refs)
  /\ UNCHANGED <<aiConfig, embeddingReady, available, logLevel, cancelled, sinkAtCancel,
                 historyLoaded, retrievalErr, response, messages, refs,
                 diariesUsed, scanned, buf, fullResponse, sink, calls>>
  /\ stored' = MessagesAfter(stored, pc' = "done")
  /\ UNCHANGED <<parseWarnings, buildVars, queryVars, auxVars, extVars>>

\* client.Do returns a response: its status decides between error and relay
Respond ==
  /\ pc = "await"
  /\ ~cancelled
  /\ \E st \in Statuses, body \in Bodies :
       LET e == CheckStatus(st, body) IN
       /\ st = StatusOK => body = ""   \* a 200 body is the stream itself
       /\ response' = [status |-> st, body |-> body, ended |-> ""]
       /\ IF e # NoErr
          THEN /\ pc' = "done"
               /\ ret' = StreamChatReturn(<<>>, e, refs)
          ELSE /\ pc' = "stream"
               /\ ret' = ret
  /\ UNCHANGED <<aiConfig, embeddingReady, available, logLevel, cancelled, sinkAtCancel,
                 historyLoaded, retrievalErr, messages, refs, diariesUsed,
                 scanned, buf, fullResponse, sink, calls>>
  /\ stored' = MessagesAfter(stored, pc' = "done")
  /\ UNCHANGED <<parseWarnings, buildVars, queryVars, auxVars, extVars>>

\* one iteration of the scanner loop on `line`, `rest` staying buffered
LoopBody(line, rest) ==
  /\ scanned' = Append(scanned, line)
  /\ buf' = rest
  /\ IF HasDataPrefix(line) /\ IsDone(line)
     THEN /\ pc' = "done"
          /\ response' = [response EXCEPT !.ended = "done"]
          /\ ret' = StreamChatReturn(fullResponse, NoErr, refs)
          /\ UNCHANGED <<fullResponse, sink, parseWarnings>>
     ELSE LET c == DeltaContent(line)
              stop == /\ c # <<>>
                      /\ StopsOnWriteError(WriteFails(Writes(sink) + 1))
          IN
          /\ fullResponse' = IF c # <<>> THEN fullResponse \o c ELSE fullResponse
          /\ sink' = IF c # <<>> THEN sink \o Forward(c) ELSE sink
          /\ parseWarnings' =
               IF HasDataPrefix(line) /\ ~Unmarshal(line).ok /\ Logs(LevelWarn)
               THEN parseWarnings + 1 ELSE parseWarnings
          /\ IF stop
             THEN /\ pc' = "done"
                  /\ response' = [response EXCEPT !.ended = "sink"]
                  /\ ret' = StreamChatReturn(fullResponse', Err("SinkFailed"), refs)
             ELSE UNCHANGED <<pc, ret, response>>
  /\ UNCHANGED <<aiConfig, embeddingReady, available, logLevel,
                 cancelled, sinkAtCancel, historyLoaded, retrievalErr,
                 messages, refs, diariesUsed, calls>>
  /\ stored' = MessagesAfter(stored, pc' = "done")
  /\ UNCHANGED <<buildVars, queryVars, auxVars, extVars>>

\* scanner.Scan() returns a line it already holds
ScanBuffered ==
  /\ pc = "stream"
  /\ buf # <<>>
  /\ LoopBody(Head(buf), Tail(buf))

\* scanner.Scan() reads the body, which delivers one or more whole lines
ScanRead ==
  /\ pc = "stream"
  /\ buf = <<>>
  /\ ~cancelled
  /\ \E ls \in SeqsUpTo(Lines, MaxRead) :
       /\ ls # <<>>
       /\ Len(scanned) + Len(ls) <= MaxLines
       /\ LoopBody(Head(ls), Tail(ls))

\* scanner.Scan() returns false: end of input (no error), or a failed read
ScanEnds ==
  /\ pc = "stream"
  /\ buf = <<>>
  /\ \E e \in IF cancelled THEN {Err("Canceled")}
              ELSE {NoErr, Err("StreamInterrupted")} :
       /\ ret' = StreamChatReturn(fullResponse, e, refs)
       /\ response' = [response EXCEPT !.ended = IF e = NoErr THEN "eof" ELSE "error"]
  /\ pc' = "done"
  /\ UNCHANGED <<aiConfig, embeddingReady, available, logLevel,
                 cancelled, sinkAtCancel, historyLoaded, retrievalErr,
                 messages, refs, diariesUsed, scanned, buf, fullResponse,
                 sink, calls>>
  /\ stored' = MessagesAfter(stored, pc' = "done")
  /\ UNCHANGED <<parseWarnings, buildVars, queryVars, auxVars, extVars>>

ChatNext ==
  \/ StreamChat
  \/ Cancel
  \/ SendFails
  \/ Respond
  \/ ScanBuffered
  \/ ScanRead
  \/ ScanEnds

-----------------------------------------------------------------------------
(* Embedding Index Manager (specification, section 4.1) behind the         *)
(* POST /api/ai/vectors/build and /build-incremental handlers              *)

Owners == {"o1", "o2"}
Requests == {1, 2, 3}
OwnerOf(r) == IF r <= 2 THEN "o1" ELSE "o2"

BuildTarget_FirstOwner(r) == "o1"

\* the owner the handler runs the build for: userId := authRecord.Id
BuildTarget(r) == OwnerOf(r)

EntryIds == 1..MaxEntries
\* o1 keeps MaxEntries entries, o2 a single one
EntriesOf(o) == IF o = "o1" THEN EntryIds ELSE {1}
EmbeddingModel == "m1"

\* the content digest and the provider's embedding of a text
Hash(text) == <<"digest", text>>
Embed(text) == <<"vector", text>>

RecordsOf(o, e) == {x \in vstore : x.owner = o /\ x.entry = e}

\* the EmbeddingRecord a build writes for an entry: vector, content-hash and
\* model identifier of one embedding of its text
NewRecord(o, e, text) ==
  [owner |-> o, entry |-> e, model |-> EmbeddingModel,
   hash |-> Hash(text), vector |-> Embed(text)]

Upsert_InsertOnly(o, e, text) == vstore \cup {NewRecord(o, e, text)}

Upsert_HashFirst(o, e, text) ==
  {x \in vstore : ~(x.owner = o /\ x.entry = e /\ x.model = EmbeddingModel)}
    \cup {[NewRecord(o, e, text) EXCEPT !.vector =
             IF RecordsOf(o, e) = {} THEN @
             ELSE (CHOOSE y \in RecordsOf(o, e) : TRUE).vector]}

\* insert or replace the record of (owner, entry, model), in one step
Upsert(o, e, text) ==
  {x \in vstore : ~(x.owner = o /\ x.entry = e /\ x.model = EmbeddingModel)}
    \cup {NewRecord(o, e, text)}

\* the stored record of the entry carries the digest of its current content
UpToDate(o, e) == \E x \in RecordsOf(o, e) : x.hash = Hash(entries[o][e])

ZeroCounts == [processed |-> 0, failed |-> 0, skipped |-> 0, unchanged |-> 0]

BuildCall_AlwaysAll(endpoint) == "all"

BuildCall_AlwaysIncremental(endpoint) == "incremental"

\* the service method each endpoint's handler calls:
\* BuildAllVectors or BuildIncrementalVectors
BuildCall(endpoint) ==
  IF endpoint = "build" THEN "all" ELSE "incremental"

BuildResponse_ErrorSwallowed(result, err) ==
  [status |-> 200, error |-> "none", result |-> result]

\* the handler's answer: 400 "Failed to build vectors: " + err, or 200 result
BuildResponse(result, err) ==
  IF err # "none"
  THEN [status |-> 400, error |-> err, result |-> ZeroCounts]
  ELSE [status |-> 200, error |-> "none", result |-> result]

NoResponse == [status |-> 0, error |-> "none", result |-> ZeroCounts]

NoSnapshot == [full |-> FALSE, stale |-> 0, edits |-> 0]

\* every entry of the owner has content and a record
FullyIndexed(o) ==
  \A e \in EntriesOf(o) : entries[o][e] # "" /\ RecordsOf(o, e) # {}

\* what a build-incremental request that starts with the owner fully
\* indexed finds: how many entries have no record of their current content
\* (they were edited since), and how many edits were made before
Snapshot(o, endpoint) ==
  IF endpoint = "build-incremental" /\ FullyIndexed(o)
  THEN [full |-> TRUE,
        stale |-> Cardinality({e \in EntriesOf(o) : ~UpToDate(o, e)}),
        edits |-> edits]
  ELSE NoSnapshot

IdleReq ==
  [pc |-> "idle", endpoint |-> "none", mode |-> "none", todo |-> {},
   counts |-> ZeroCounts, overlap |-> FALSE, writes |-> 0, embeds |-> 0,
   snap |-> NoSnapshot, resp |-> NoResponse]

IndexStats_ByTimestamp(ents, recs) ==
  LET of(e) == {x \in recs : x.entry = e}
      have == {e \in DOMAIN ents : of(e) # {}}
  IN
  [total |-> Cardinality(DOMAIN ents),
   indexed |-> Cardinality(have),
   missing |-> Cardinality(DOMAIN ents \ have),
   outdated |-> Cardinality({e \in have :
                  \E x \in of(e) : x.updated < ents[e].modified})]

\* IndexStats: the entries joined against the records; outdated is an entry
\* with a record none of whose digests is the digest of its current content
IndexStats(ents, recs) ==
  LET of(e) == {x \in recs : x.entry = e}
      have == {e \in DOMAIN ents : of(e) # {}}
  IN
  [total |-> Cardinality(DOMAIN ents),
   indexed |-> Cardinality(have),
   missing |-> Cardinality(DOMAIN ents \ have),
   outdated |-> Cardinality({e \in have :
                  ~\E x \in of(e) : x.hash = Hash(ents[e].content)})]

\* GetVectorStats over the entry source and the Vector Store, whose
\* timestamps the build model leaves out
GetVectorStats(o) ==
  IndexStats([e \in EntriesOf(o) |-> [content |-> entries[o][e], modified |-> 0]],
             {[entry |-> x.entry, hash |-> x.hash, updated |-> 0] :
                x \in {y \in vstore : y.owner = o}})

\* the stats handler's answer: 400 "Failed to get vector stats: " + err, or
\* 200 with the stats
StatsResponse(stats, err) ==
  IF err # "none"
  THEN [status |-> 400, error |-> err, stats |-> [total |-> 0, indexed |-> 0,
                                                 missing |-> 0, outdated |-> 0]]
  ELSE [status |-> 200, error |-> "none", stats |-> stats]

\* GET /api/ai/vectors/stats for owner o, answered in the current state
GetStats(o) == StatsResponse(GetVectorStats(o), "none")

LocksAfter_KeptOnAbort(o, how) == IF how = "none" THEN locks \ {o} ELSE locks

\* the build lock of o is released however the build ended
LocksAfter(o, how) == locks \ {o}

Remaining_AbortOnFailure(todo, e, outcome) ==
  IF outcome = "failed" THEN {} ELSE todo \ {e}

\* the entries still to attempt after entry e: no outcome ends the batch
Remaining(todo, e, outcome) == todo \ {e}

\* the registry after the lock of o was released: under reference counting
\* the entry goes with the last holder, under time-based eviction it stays
\* until it is evicted
RegistryAfter(o) == IF reclaim = "release" THEN registry \ {o} ELSE registry

BuildStart(ents, policy) ==
  /\ registry = {}
  /\ reclaim = policy
  /\ entries = ents
  /\ vstore = {}
  /\ locks = {}
  /\ req = [r \in Requests |-> IdleReq]
  /\ embedCalls = [o \in Owners |-> 0]
  /\ edits = 0

\* every entry holds text, but the first entry of o1 may be empty
BuildInit ==
  \E first \in {"", "a"} :
    BuildStart([o \in Owners |-> [e \in EntriesOf(o) |->
                  IF o = "o1" /\ e = 1 THEN first ELSE "a"]], "release")

Building(r) == req[r].pc = "building"

\* a build of the same owner is in flight when request r arrives
Overlaps(r) ==
  \E r2 \in Requests \ {r} : OwnerOf(r2) = OwnerOf(r) /\ Building(r2)

\* the handler runs the build; the build takes the owner's lock or fails
\* fast with BuildInProgress
BuildRequest(r, endpoint) ==
  /\ req[r].pc = "idle"
  /\ IF BuildTarget(r) \in locks
     THEN /\ req' = [req EXCEPT ![r] =
                 [@ EXCEPT !.pc = "done", !.endpoint = endpoint,
                           !.mode = BuildCall(endpoint),
                           !.overlap = Overlaps(r),
                           !.resp = BuildResponse(ZeroCounts, "BuildInProgress")]]
          /\ UNCHANGED <<locks, registry>>
     ELSE /\ req' = [req EXCEPT ![r] =
                 [@ EXCEPT !.pc = "building", !.endpoint = endpoint,
                           !.mode = BuildCall(endpoint),
                           !.overlap = Overlaps(r),
                           !.snap = Snapshot(BuildTarget(r), endpoint),
                           !.todo = EntriesOf(BuildTarget(r))]]
          /\ locks' = locks \cup {BuildTarget(r)}
          /\ registry' = registry \cup {BuildTarget(r)}
  /\ UNCHANGED <<entries, vstore, embedCalls, edits, reclaim>>
  /\ UNCHANGED <<chatVars, queryVars, auxVars, extVars>>

\* the build handles the next entry of the fetched list: skipped when empty, unchanged when an
\* incremental build finds the digest stored, else embedded and upserted
\* (processed) or counted failed when the provider fails
BuildEntry(r, e) ==
  LET o == BuildTarget(r)
      text == entries[o][e]
      bump(f) == [req EXCEPT ![r].todo = Remaining(@, e, f),
                             ![r].counts[f] = @ + 1]
  IN
  /\ Building(r)
  /\ e \in req[r].todo
  /\ \A e2 \in req[r].todo : e <= e2
  /\ IF text = ""
     THEN /\ req' = bump("skipped")
          /\ UNCHANGED <<vstore, embedCalls>>
     ELSE IF req[r].mode = "incremental" /\ UpToDate(o, e)
     THEN /\ req' = bump("unchanged")
          /\ UNCHANGED <<vstore, embedCalls>>
     ELSE /\ embedCalls' = [embedCalls EXCEPT ![o] = @ + 1]
          /\ \E ok \in BOOLEAN :
               IF ok
               THEN /\ vstore' = Upsert(o, e, text)
                    /\ req' = [bump("processed") EXCEPT ![r].writes = @ + 1,
                                                        ![r].embeds = @ + 1]
               ELSE /\ req' = [bump("failed") EXCEPT ![r].embeds = @ + 1]
                    /\ UNCHANGED vstore
  /\ UNCHANGED <<entries, locks, edits, registry, reclaim>>
  /\ UNCHANGED <<chatVars, queryVars, auxVars, extVars>>

\* every entry was attempted: the lock is released, the handler answers
BuildFinish(r) ==
  /\ Building(r)
  /\ req[r].todo = {}
  /\ req' = [req EXCEPT ![r].pc = "done",
                        ![r].resp = BuildResponse(req[r].counts, "none")]
  /\ locks' = LocksAfter(BuildTarget(r), "none")
  /\ registry' = RegistryAfter(BuildTarget(r))
  /\ UNCHANGED <<entries, vstore, embedCalls, edits, reclaim>>
  /\ UNCHANGED <<chatVars, queryVars, auxVars, extVars>>

\* the handler's 10-minute deadline elapses, or the request's context is
\* cancelled, before every entry was attempted: the build returns its
\* partial counts with the error, the lock is released, the handler answers
BuildAbort(r, how) ==
  /\ Building(r)
  /\ req[r].todo # {}
  /\ req' = [req EXCEPT ![r].pc = "done",
                        ![r].resp = BuildResponse(req[r].counts, how)]
  /\ locks' = LocksAfter(BuildTarget(r), how)
  /\ registry' = RegistryAfter(BuildTarget(r))
  /\ UNCHANGED <<entries, vstore, embedCalls, edits, reclaim>>
  /\ UNCHANGED <<chatVars, queryVars, auxVars, extVars>>

\* the owner edits an entry's content
EditEntry(o, e) ==
  /\ edits < MaxEdits
  /\ entries[o][e] # "b"
  /\ entries' = [entries EXCEPT ![o][e] = "b"]
  /\ edits' = edits + 1
  /\ UNCHANGED <<vstore, locks, req, embedCalls, registry, reclaim>>
  /\ UNCHANGED <<chatVars, queryVars, auxVars, extVars>>

Evictable_Never(o) == FALSE

\* an entry can go when no build holds its lock
Evictable(o) == o \notin locks

\* time-based eviction removes an entry of the registry
Evict(o) ==
  /\ o \in registry
  /\ Evictable(o)
  /\ registry' = registry \ {o}
  /\ UNCHANGED <<entries, vstore, locks, req, embedCalls, edits, reclaim>>
  /\ UNCHANGED <<chatVars, queryVars, auxVars, extVars>>

BuildNext ==
  \/ \E r \in Requests, ep \in {"build", "build-incremental"} : BuildRequest(r, ep)
  \/ \E r \in Requests, e \in EntryIds : BuildEntry(r, e)
  \/ \E r \in Requests : BuildFinish(r)
  \/ \E o \in Owners : \E e \in EntriesOf(o) : EditEntry(o, e)

\* the requests of the first owner
SoloRequests == {r \in Requests : OwnerOf(r) = "o1"}

\* one owner's builds, which may also end at the deadline or be cancelled
SoloNext ==
  \/ \E r \in SoloRequests, ep \in {"build", "build-incremental"} : BuildRequest(r, ep)
  \/ \E r \in SoloRequests, e \in EntryIds : BuildEntry(r, e)
  \/ \E r \in SoloRequests : BuildFinish(r)
  \/ \E r \in SoloRequests, how \in {"DeadlineExceeded", "Canceled"} : BuildAbort(r, how)
  \/ \E e \in EntriesOf("o1") : EditEntry("o1", e)

\* one build request of each owner, ending in any way, under either way of
\* reclaiming registry entries
RegistryNext ==
  \/ \E r \in {2, 3}, ep \in {"build", "build-incremental"} : BuildRequest(r, ep)
  \/ \E r \in {2, 3}, e \in EntryIds : BuildEntry(r, e)
  \/ \E r \in {2, 3} : BuildFinish(r)
  \/ \E r \in {2, 3}, how \in {"DeadlineExceeded", "Canceled"} : BuildAbort(r, how)
  \/ \E o \in Owners : Evict(o)

-----------------------------------------------------------------------------
(* Similarity Search (specification, section 4.2) behind                   *)
(* ChatService.QueryRelevantDiaries                                        *)

MaxRecords == 3   \* EmbeddingRecords of the owner

\* embeddings with non-negative components; <<1, 0>> and <<2, 0>> point the
\* same way and so score alike against every query
Vectors == {<<1, 0>>, <<2, 0>>, <<0, 1>>}
QueryVectors == {<<1, 0>>, <<1, 1>>}
Dates == {1, 2}
EmptyText == <<>>

Dot(a, b) == a[1] * b[1] + a[2] * b[2]

\* cosine similarity of two non-negative vectors, kept exact as the fraction
\* (a.q)^2 / (|a|^2 * |q|^2) of its square
Cosine(a, q) == [num |-> Dot(a, q) * Dot(a, q), den |-> Dot(a, a) * Dot(q, q)]

ScoreLess(x, y) == x.num * y.den < y.num * x.den
ScoreEqual(x, y) == x.num * y.den = y.num * x.den

\* step 4: every record scored against the query vector
Scored(records, q) ==
  [i \in 1..Len(records) |->
     [id |-> records[i].entry, date |-> records[i].date,
      live |-> records[i].live, score |-> Cosine(records[i].vec, q)]]

Precedes_ScoreOnly(x, y) == ScoreLess(y.score, x.score)

\* step 5: higher score first, equal scores by entry date, most recent first
Precedes(x, y) ==
  \/ ScoreLess(y.score, x.score)
  \/ ScoreEqual(x.score, y.score) /\ x.date > y.date

RECURSIVE Insert(_, _)
Insert(x, s) ==
  IF s = <<>> THEN <<x>>
  ELSE IF Precedes(x, Head(s)) THEN <<x>> \o s
  ELSE <<Head(s)>> \o Insert(x, Tail(s))

RECURSIVE SortRanked(_)
SortRanked(s) == IF s = <<>> THEN <<>> ELSE Insert(Head(s), SortRanked(Tail(s)))

\* step 5: truncate to limit
Truncate(s, limit) == SubSeq(s, 1, Min(Len(s), limit))

IsLive_Always(x) == TRUE

\* the record's JournalEntry is still in the entry source
IsLive(x) == x.live

\* step 6: a record whose entry has vanished is left out
Join(s) ==
  [i \in 1..Len(SelectSeq(s, IsLive)) |->
     [id |-> SelectSeq(s, IsLive)[i].id, date |-> SelectSeq(s, IsLive)[i].date,
      score |-> SelectSeq(s, IsLive)[i].score]]

RECURSIVE LoadRecords(_, _)
\* step 3: the EmbeddingRecords of the owner, in the store's order
LoadRecords(store, owner) ==
  IF store = <<>> THEN <<>>
  ELSE IF Head(store).owner = owner
       THEN <<Head(store)>> \o LoadRecords(Tail(store), owner)
       ELSE LoadRecords(Tail(store), owner)

\* what a call returns: the error, the results, and the provider calls and
\* Vector Store loads it made
Outcome(err, res, embeds, loads) ==
  [err |-> err, res |-> res, embeds |-> embeds, loads |-> loads]

RankSimilar_EmbedFirst(store, owner, q, limit, embedOk) ==
  IF ~embedOk THEN Outcome("UpstreamUnavailable", <<>>, 1, 0)
  ELSE IF q = EmptyText THEN Outcome("InvalidQuery", <<>>, 1, 0)
  ELSE Outcome("none",
               Join(Truncate(SortRanked(Scored(LoadRecords(store, owner), q)), limit)),
               1, 1)

\* QuerySimilar, steps 1 to 6
RankSimilar(store, owner, q, limit, embedOk) ==
  IF q = EmptyText THEN Outcome("InvalidQuery", <<>>, 0, 0)
  ELSE IF ~embedOk THEN Outcome("UpstreamUnavailable", <<>>, 1, 0)
  ELSE IF LoadRecords(store, owner) = <<>> THEN Outcome("none", <<>>, 1, 1)
  ELSE Outcome("none",
               Join(Truncate(SortRanked(Scored(LoadRecords(store, owner), q)), limit)),
               1, 1)

\* QueryRelevantDiaries: an error without the embedding service, else
\* whatever QuerySimilar returns
QueryRelevantDiaries(ready, store, userID, q, limit, embedOk) ==
  IF ~ready THEN Outcome("embedding service not available", <<>>, 0, 0)
  ELSE RankSimilar(store, userID, q, limit, embedOk)

\* the owner the search is made for
QueryOwner == "o1"

QueryStart(records, q, limit) ==
  /\ qRecords = records
  /\ qQuery = q
  /\ qLimit = limit
  /\ qOut = [pc |-> "idle", ready |-> TRUE, err |-> "none", res |-> <<>>,
             embeds |-> 0, loads |-> 0]

RecordSpace ==
  [entry : {0}, owner : {QueryOwner}, vec : Vectors, date : Dates,
   live : BOOLEAN]

\* up to MaxRecords records, one per entry
QueryInit ==
  \E n \in 0..MaxRecords : \E f \in [1..n -> RecordSpace] :
    \E q \in QueryVectors \cup {EmptyText}, limit \in 0..MaxDiaries :
      QueryStart([i \in 1..n |-> [f[i] EXCEPT !.entry = i]], q, limit)

\* a Vector Store shared by two owners, some of its records stale
SharedRecordSpace ==
  [entry : {0}, owner : Owners, vec : {<<1, 0>>, <<0, 1>>}, date : {1},
   live : BOOLEAN]

JoinInit ==
  \E n \in 0..MaxRecords : \E f \in [1..n -> SharedRecordSpace] :
    \E q \in QueryVectors \cup {EmptyText}, limit \in 0..MaxDiaries :
      QueryStart([i \in 1..n |-> [f[i] EXCEPT !.entry = i]], q, limit)

\* one call of QueryRelevantDiaries
Query ==
  /\ qOut.pc = "idle"
  /\ \E ready \in BOOLEAN, embedOk \in BOOLEAN :
       LET out == QueryRelevantDiaries(ready, qRecords, QueryOwner, qQuery,
                                       qLimit, embedOk) IN
       qOut' = [pc |-> "done", ready |-> ready, err |-> out.err, res |-> out.res,
                embeds |-> out.embeds, loads |-> out.loads]
  /\ UNCHANGED <<qRecords, qQuery, qLimit>>
  /\ UNCHANGED <<chatVars, buildVars, auxVars, extVars>>

QueryNext == Query

-----------------------------------------------------------------------------
(* GET /api/ai/vectors/stats over entries and records with timestamps      *)

\* an entry: its content and last-modified timestamp; a record: the digest
\* it stores and its last-updated timestamp, 0 when it has none
StatsEntrySpace == [content : {"", "a", "b"}, modified : {1}]
StatsRecordSpace == [hash : {Hash("a"), Hash("b")}, updated : {0, 2}]

StatsStart(ents, recs) ==
  /\ sIndex = [ents |-> ents, recs |-> recs]
  /\ sOut = [pc |-> "idle", resp |-> StatsResponse(IndexStats(<<>>, {}), "none")]

\* up to MaxEntries entries, each with at most one record
StatsInit ==
  \E n \in 0..MaxEntries :
    \E ents \in [1..n -> StatsEntrySpace], has \in SUBSET (1..n) :
      \E recs \in [has -> StatsRecordSpace] :
        StatsStart(ents, {[entry |-> e, hash |-> recs[e].hash,
                           updated |-> recs[e].updated] : e \in has})

\* the handler calls GetVectorStats and answers
Stats ==
  /\ sOut.pc = "idle"
  /\ \E err \in {"none", "store unavailable"} :
       sOut' = [pc |-> "done",
                resp |-> StatsResponse(IndexStats(sIndex.ents, sIndex.recs), err)]
  /\ UNCHANGED <<sIndex, setVersion, settings, put, mIn, mOut>>
  /\ UNCHANGED <<chatVars, buildVars, queryVars, extVars>>

-----------------------------------------------------------------------------
(* PUT /api/ai/settings and ConfigService.SetBatch                         *)

SettingKeys == {"ai.api_key", "ai.base_url", "ai.chat_model",
                "ai.embedding_model", "ai.enabled"}

\* no user_settings record of any key
NoSettings == [k \in SettingKeys |-> "norecord"]

\* the handler's settings map of a request body with the given api_key,
\* the given value in its other three text fields, and the given enabled
PutBody(apiKey, others, enabled) ==
  [k \in SettingKeys |->
     IF k = "ai.enabled" THEN enabled
     ELSE IF k = "ai.api_key" THEN apiKey ELSE others]

\* the handler's validation: enabled with a blank field
Rejects(body) ==
  /\ body["ai.enabled"] = "true"
  /\ \E k \in SettingKeys \ {"ai.enabled"} : body[k] = ""

StoreAfterSave_WriteThrough(store, k, v) == [store EXCEPT ![k] = v]

\* the store other requests see after SaveRecord of key k succeeded: the
\* per-key SetBatch saves through s.app.Dao(), the transactional one through
\* txDao, whose writes are not visible before the transaction commits
StoreAfterSave(store, k, v) ==
  IF setVersion = "perkey" THEN [store EXCEPT ![k] = v] ELSE store

\* the store after SetBatch returned nil: RunInTransaction has committed
\* every value of the batch
StoreAfterReturn(store, body) ==
  IF setVersion = "transactional" THEN body ELSE store

PutRequests == {1, 2}

SettingsStart(version) ==
  /\ setVersion = version
  /\ settings = NoSettings
  /\ put = [r \in PutRequests |->
              [pc |-> "idle", body |-> NoSettings, saved |-> {},
               partial |-> FALSE, status |-> 0]]

\* the handler up to SetBatch: 400 when the body is rejected
PutSettings(r, body) ==
  /\ put[r].pc = "idle"
  /\ put' = [put EXCEPT ![r] =
       IF Rejects(body)
       THEN [@ EXCEPT !.pc = "done", !.body = body, !.status = 400]
       ELSE [@ EXCEPT !.pc = "saving", !.body = body]]
  /\ UNCHANGED <<setVersion, settings, sIndex, sOut, mIn, mOut>>
  /\ UNCHANGED <<chatVars, buildVars, queryVars, extVars>>

\* one iteration of SetBatch's loop, over the map in any order: the key is
\* saved, or the save fails and SetBatch returns the error (400)
SaveKey(r, k) ==
  /\ put[r].pc = "saving"
  /\ k \in SettingKeys \ put[r].saved
  /\ \E ok \in BOOLEAN :
       IF ok
       THEN /\ put' = [put EXCEPT ![r].saved = @ \cup {k}]
            /\ settings' = StoreAfterSave(settings, k, put[r].body[k])
       ELSE /\ put' = [put EXCEPT ![r] =
                 [@ EXCEPT !.pc = "done", !.status = 400, !.saved = {},
                           !.partial = (put[r].saved # {})]]
            /\ UNCHANGED settings
  /\ UNCHANGED <<setVersion, sIndex, sOut, mIn, mOut>>
  /\ UNCHANGED <<chatVars, buildVars, queryVars, extVars>>

\* every key was saved: SetBatch returns nil (200), or the commit of the
\* transaction fails (400)
SetBatchReturns(r) ==
  /\ put[r].pc = "saving"
  /\ put[r].saved = SettingKeys
  /\ \E ok \in IF setVersion = "transactional" THEN BOOLEAN ELSE {TRUE} :
       IF ok
       THEN /\ put' = [put EXCEPT ![r] =
                 [@ EXCEPT !.pc = "done", !.status = StatusOK, !.saved = {}]]
            /\ settings' = StoreAfterReturn(settings, put[r].body)
       ELSE /\ put' = [put EXCEPT ![r] =
                 [@ EXCEPT !.pc = "done", !.status = 400, !.saved = {},
                           !.partial = TRUE]]
            /\ UNCHANGED settings
  /\ UNCHANGED <<setVersion, sIndex, sOut, mIn, mOut>>
  /\ UNCHANGED <<chatVars, buildVars, queryVars, extVars>>

SettingsNext ==
  \/ \E r \in PutRequests :
       \/ PutSettings(r, PutBody("set", "set", "true"))
       \/ PutSettings(r, PutBody("", "", "false"))
       \/ PutSettings(r, PutBody("", "set", "true"))
  \/ \E r \in PutRequests, k \in SettingKeys : SaveKey(r, k)
  \/ \E r \in PutRequests : SetBatchReturns(r)

-----------------------------------------------------------------------------
(* POST /api/ai/models and fetchModels                                     *)

MaxModels == 2    \* models the provider lists

TrimSuffix_Keep(str, suffix) == str

\* strings.TrimSuffix with a one-character suffix: the string without its
\* last character when that is the suffix, else the string
TrimSuffix(str, suffix) ==
  IF str # <<>> /\ str[Len(str)] = suffix
  THEN SubSeq(str, 1, Len(str) - 1)
  ELSE str

\* fetchModels against an upstream that fails the transport or answers
\* with a status and a body: the models, the error, the URL requested and
\* the number of requests sent; http.NewRequest refuses a URL with a
\* control character
fetchModels(baseURL, apiKey, upstream) ==
  LET url == TrimSuffix(baseURL, "/") \o <<"/v1/models">>
      out(models, err, sent) ==
        [models |-> models, err |-> err, url |-> url, calls |-> sent]
  IN
  IF \E i \in 1..Len(url) : url[i] = "ctl"
  THEN out(<<>>, Err("failed to create request"), 0)
  ELSE IF upstream.kind = "transport"
  THEN out(<<>>, Err("UpstreamUnavailable"), 1)
  ELSE IF CheckStatus(upstream.status, upstream.body) # NoErr
  THEN out(<<>>, CheckStatus(upstream.status, upstream.body), 1)
  ELSE IF ~upstream.decodes
  THEN out(<<>>, Err("DecodeError"), 1)
  ELSE out(upstream.data, NoErr, 1)

\* the handler: 400 for a blank api_key or base_url and for an error of
\* fetchModels, else 200 with the models
ModelsEndpoint(baseURL, apiKey, upstream) ==
  IF apiKey = "" \/ baseURL = <<>>
  THEN [status |-> 400, err |-> Err("API key and base URL are required"),
        models |-> <<>>, url |-> <<>>, calls |-> 0]
  ELSE LET f == fetchModels(baseURL, apiKey, upstream) IN
       [status |-> IF f.err # NoErr THEN 400 ELSE StatusOK, err |-> f.err,
        models |-> f.models, url |-> f.url, calls |-> f.calls]

\* a request body, and an upstream that fails the transport, answers with
\* a status other than 200 and some body, or answers 200 with a body that
\* decodes to a list of up to MaxModels models or does not decode
ModelsInit ==
  /\ \E baseURL \in {<<>>, <<"h">>, <<"h", "/">>, <<"h", "/", "/">>, <<"ctl">>},
        apiKey \in {"", "key"},
        kind \in {"transport", "response"}, status \in Statuses,
        body \in Bodies, decodes \in BOOLEAN,
        data \in SeqsUpTo({"m1", "m2"}, MaxModels) :
       /\ kind = "transport" => status = StatusOK
       /\ (kind = "transport" \/ status = StatusOK) => body = ""
       /\ (kind = "transport" \/ status # StatusOK) => ~decodes
       /\ ~decodes => data = <<>>
       /\ mIn = [baseURL |-> baseURL, apiKey |-> apiKey,
                 upstream |-> [kind |-> kind, status |-> status, body |-> body,
                               decodes |-> decodes, data |-> data]]
  /\ mOut = [pc |-> "idle", resp |-> ModelsEndpoint(<<>>, "", mIn.upstream)]

\* the handler answers the request
Models ==
  /\ mOut.pc = "idle"
  /\ mOut' = [pc |-> "done",
              resp |-> ModelsEndpoint(mIn.baseURL, mIn.apiKey, mIn.upstream)]
  /\ UNCHANGED <<mIn, sIndex, sOut, setVersion, settings, put>>
  /\ UNCHANGED <<chatVars, buildVars, queryVars, extVars>>

-----------------------------------------------------------------------------
(* ConfigService.ValidateTokenAndGetUser                                   *)

\* what a user_settings row of api.token can hold, and the tokens presented
TokenValues == StoredValues \cup {NilValue}
Tokens == {"", "set", "other"}

\* api.enabled of a user: a stored boolean, or no record
BoolValue(b) == [type |-> "bool", str |-> IF b THEN "true" ELSE "false"]
EnabledValues == {BoolValue(TRUE), BoolValue(FALSE), NoRecord}

\* parseStringValue: "" for nil and for every value that is not a string
parseStringValue(value) == IF value.type = "string" THEN value.str ELSE ""

\* GetBool: the stored boolean; the default, read as a boolean, without a
\* record
GetBool(value) ==
  LET v == IF value = NoRecord THEN GetDefault("api.enabled") ELSE value
  IN v = BoolValue(TRUE)

\* the loop over the api.token rows from row i on: the first row whose
\* token matches decides, by its user's api.enabled
RECURSIVE MatchToken(_, _, _, _)
MatchToken(rows, i, enabled, token) ==
  IF i > Len(rows) THEN ""
  ELSE IF parseStringValue(rows[i].value) = token
  THEN (IF GetBool(enabled[rows[i].user]) THEN rows[i].user ELSE "")
  ELSE MatchToken(rows, i + 1, enabled, token)

\* ValidateTokenAndGetUser over the api.token rows in the order the query
\* returns them; both versions return the same user id
ValidateTokenAndGetUser(rows, enabled, token, queryFails) ==
  IF queryFails
  THEN [userId |-> "", err |-> Err("query")]
  ELSE [userId |-> MatchToken(rows, 1, enabled, token), err |-> NoErr]

\* the api.token rows of up to two users in some order, each user's
\* api.enabled, a presented token, and whether the query fails
TokenInit ==
  \E users \in {<<>>, <<"o1">>, <<"o2">>, <<"o1", "o2">>, <<"o2", "o1">>},
     values \in [Owners -> TokenValues],
     enabled \in [Owners -> EnabledValues],
     token \in Tokens, queryFails \in BOOLEAN :
    tok = [rows |-> [i \in 1..Len(users) |->
                      [user |-> users[i], value |-> values[users[i]]]],
           enabled |-> enabled, token |-> token, queryFails |-> queryFails,
           pc |-> "idle", userId |-> "", err |-> NoErr]

\* the call returns
ValidateToken ==
  /\ tok.pc = "idle"
  /\ LET r == ValidateTokenAndGetUser(tok.rows, tok.enabled, tok.token,
                                      tok.queryFails)
     IN tok' = [tok EXCEPT !.pc = "done", !.userId = r.userId, !.err = r.err]
  /\ UNCHANGED <<userSettings, gen, page, menu, auth, writer>>
  /\ UNCHANGED <<chatVars, buildVars, queryVars, auxVars>>

-----------------------------------------------------------------------------
(* ConfigService.Set, SetBatch, Delete and Get on the user_settings rows   *)
(* of one user                                                             *)

MaxCalls == 2     \* concurrent calls on the store

Callers == 1..MaxCalls
RowKeys == {"k1", "k2"}
RowValues == {[type |-> "string", str |-> "set"], [type |-> "string", str |-> ""]}

\* the rows of a key, and what FindFirstRecordByFilter can return for it:
\* the id of one of them, or 0 for its error when there is none
RowsOf(rows, key) == {r \in rows : r.key = key}
FindFirstRecordByFilter(rows, key) ==
  IF RowsOf(rows, key) = {} THEN {0} ELSE {r.id : r \in RowsOf(rows, key)}

\* the values Get can return: the value of a row found, or the default
GetValues(rows, key) ==
  IF RowsOf(rows, key) = {} THEN {GetDefault(key)}
  ELSE {r.value : r \in RowsOf(rows, key)}

\* the rows after SaveRecord: a new row for a record made by NewRecord, an
\* UPDATE of the row with the record's id otherwise (of no row, when that
\* row is gone)
SaveRecord(rows, found, newId, key, value) ==
  IF found = 0
  THEN rows \cup {[id |-> newId, key |-> key, value |-> value]}
  ELSE {IF r.id = found THEN [r EXCEPT !.value = value] ELSE r : r \in rows}

\* the rows after DeleteRecord
DeleteRecord(rows, found) == {r \in rows : r.id # found}

\* no call made, k1 stored by an earlier Set or not; the collection may or
\* may not have a unique index on (user, key): its migration is not part of
\* the sources
RowsInit ==
  \E unique \in BOOLEAN, present \in BOOLEAN :
    userSettings =
      [rows |-> IF present THEN SaveRecord({}, 0, 1, "k1", GetDefault("k1")) ELSE {},
       nextId |-> IF present THEN 2 ELSE 1, unique |-> unique,
       last |-> [k \in RowKeys |-> [op |-> "none", value |-> NilValue]],
       call |-> [p \in Callers |->
                  [op |-> "none", todo |-> <<>>, value |-> NilValue,
                   pc |-> "idle", found |-> 0, err |-> NoErr]]]

\* a caller enters Set or Delete with one key, or SetBatch with a map of
\* both keys, ranged over in some order
Call(p, op, todo, value) ==
  /\ userSettings.call[p].pc = "idle"
  /\ userSettings' = [userSettings EXCEPT !.call[p] =
       [op |-> op, todo |-> todo, value |-> value, found |-> 0, err |-> NoErr,
        pc |-> IF op = "SetBatch" /\ setVersion = "transactional"
               THEN "tx" ELSE "find"]]
  /\ UNCHANGED <<tok, gen, page, menu, auth, writer>>
  /\ UNCHANGED <<chatVars, buildVars, queryVars, auxVars>>

\* FindFirstRecordByFilter in Set, Delete and the loop of the per-key
\* SetBatch; Delete returns nil when nothing is found
Find(p) ==
  LET c == userSettings.call[p] IN
  /\ c.pc = "find"
  /\ \E f \in FindFirstRecordByFilter(userSettings.rows, Head(c.todo)) :
       userSettings' = [userSettings EXCEPT !.call[p] =
         IF c.op = "Delete" /\ f = 0
         THEN [@ EXCEPT !.pc = "done"]
         ELSE [@ EXCEPT !.pc = "save", !.found = f]]
  /\ UNCHANGED <<tok, gen, page, menu, auth, writer>>
  /\ UNCHANGED <<chatVars, buildVars, queryVars, auxVars>>

\* Dao().SaveRecord of Set, Dao().DeleteRecord of Delete: a unique index
\* refuses a second row of the key; the write is the key's last write
Save(p) ==
  LET c == userSettings.call[p]
      k == Head(c.todo)
      refused == /\ c.op # "Delete" /\ c.found = 0 /\ userSettings.unique
                 /\ RowsOf(userSettings.rows, k) # {}
  IN
  /\ c.pc = "save"
  /\ userSettings' =
       IF refused
       THEN [userSettings EXCEPT !.call[p].pc = "done",
                                 !.call[p].err = Err("SaveRecord")]
       ELSE [userSettings EXCEPT
              !.rows = IF c.op = "Delete" THEN DeleteRecord(@, c.found)
                       ELSE SaveRecord(@, c.found, userSettings.nextId, k, c.value),
              !.nextId = IF c.op # "Delete" /\ c.found = 0 THEN @ + 1 ELSE @,
              !.last[k] = IF c.op = "Delete"
                          THEN [op |-> "Delete", value |-> NilValue]
                          ELSE [op |-> "Set", value |-> c.value],
              !.call[p].todo = Tail(@),
              !.call[p].found = 0,
              !.call[p].pc = IF Len(c.todo) = 1 THEN "done" ELSE "find"]
  /\ UNCHANGED <<tok, gen, page, menu, auth, writer>>
  /\ UNCHANGED <<chatVars, buildVars, queryVars, auxVars>>

\* the transactional SetBatch: the finds and saves of both keys in one
\* transaction, committed
Transaction(p) ==
  LET c == userSettings.call[p]
      k1 == c.todo[1]
      k2 == c.todo[2]
  IN
  /\ c.pc = "tx"
  /\ \E f1 \in FindFirstRecordByFilter(userSettings.rows, k1),
        f2 \in FindFirstRecordByFilter(userSettings.rows, k2) :
       LET id1 == userSettings.nextId
           id2 == IF f1 = 0 THEN id1 + 1 ELSE id1
       IN userSettings' = [userSettings EXCEPT
            !.rows = SaveRecord(SaveRecord(@, f1, id1, k1, c.value),
                                f2, id2, k2, c.value),
            !.nextId = IF f2 = 0 THEN id2 + 1 ELSE id2,
            !.last = [k \in RowKeys |-> [op |-> "Set", value |-> c.value]],
            !.call[p].todo = <<>>,
            !.call[p].pc = "done"]
  /\ UNCHANGED <<tok, gen, page, menu, auth, writer>>
  /\ UNCHANGED <<chatVars, buildVars, queryVars, auxVars>>

RowsNext ==
  \E p \in Callers :
    \/ \E k \in RowKeys, v \in RowValues : Call(p, "Set", <<k>>, v)
    \/ \E k \in RowKeys : Call(p, "Delete", <<k>>, NilValue)
    \/ \E v \in RowValues :
         \/ Call(p, "SetBatch", <<"k1", "k2">>, v)
         \/ Call(p, "SetBatch", <<"k2", "k1">>, v)
    \/ Find(p)
    \/ Save(p)
    \/ Transaction(p)

-----------------------------------------------------------------------------
(* The browser's streamChat generator (lib/api, AsyncGenerator)            *)

MaxSse == 2       \* newline-terminated lines in the response body

\* characters: "d", ":" spell the prefix `data: `, "j" is text JSON.parse
\* accepts, "x" text it rejects, "n" the newline
DataPrefix == <<"d", ":">>
SseLines == {DataPrefix \o <<"j">>, DataPrefix \o <<"j", "j">>,
             DataPrefix \o <<"x">>, DataPrefix, <<"d">>, <<"j">>, <<>>}

\* buffer.split('\n'): the pieces between the newlines, at least one
RECURSIVE Split(_, _)
Split(str, piece) ==
  IF str = <<>> THEN <<piece>>
  ELSE IF Head(str) = "n" THEN <<piece>> \o Split(Tail(str), <<>>)
  ELSE Split(Tail(str), Append(piece, Head(str)))

\* line.startsWith('data: ')
StartsWithData(line) ==
  Len(line) >= Len(DataPrefix) /\ SubSeq(line, 1, Len(DataPrefix)) = DataPrefix

\* JSON.parse(line.slice(6)): the value, or an exception
JSONParse(line) ==
  LET text == SubSeq(line, Len(DataPrefix) + 1, Len(line)) IN
  [ok |-> text # <<>> /\ \A i \in 1..Len(text) : text[i] = "j", data |-> text]

\* the for loop over the lines: the chunks yielded, in order
RECURSIVE YieldLines(_)
YieldLines(lines) ==
  IF lines = <<>> THEN <<>>
  ELSE (IF StartsWithData(Head(lines)) /\ JSONParse(Head(lines)).ok
        THEN <<JSONParse(Head(lines)).data>> ELSE <<>>)
       \o YieldLines(Tail(lines))

Pop_Drop(lines) == <<>>

\* lines.pop() || '': the piece after the last newline stays buffered
Pop(lines) == lines[Len(lines)]

\* one iteration of the while loop on the value of a read
streamChat(buffer, value) ==
  LET lines == Split(buffer \o value, <<>>) IN
  [buffer |-> Pop(lines),
   yields |-> YieldLines(SubSeq(lines, 1, Len(lines) - 1))]

\* a response body of up to MaxSse lines and an unterminated rest, nothing
\* read yet
GenInit ==
  \E ls \in SeqsUpTo(SseLines, MaxSse), rest \in SseLines :
    gen = [body |-> Concat([i \in 1..Len(ls) |-> ls[i] \o <<"n">>]) \o rest,
           pos |-> 0, buffer |-> <<>>, yielded |-> <<>>, carried |-> FALSE,
           pc |-> "reading"]

\* reader.read() delivers the next n characters of the body
GenRead(n) ==
  /\ gen.pc = "reading"
  /\ gen.pos + n <= Len(gen.body)
  /\ LET r == streamChat(gen.buffer, SubSeq(gen.body, gen.pos + 1, gen.pos + n))
     IN gen' = [gen EXCEPT !.pos = @ + n, !.buffer = r.buffer,
                           !.yielded = @ \o r.yields,
                           !.carried = @ \/ r.buffer # <<>>]
  /\ UNCHANGED <<tok, userSettings, page, menu, auth, writer>>
  /\ UNCHANGED <<chatVars, buildVars, queryVars, auxVars>>

\* reader.read() reports done: the loop breaks, the generator returns
GenDone ==
  /\ gen.pc = "reading"
  /\ gen.pos = Len(gen.body)
  /\ gen' = [gen EXCEPT !.pc = "done"]
  /\ UNCHANGED <<tok, userSettings, page, menu, auth, writer>>
  /\ UNCHANGED <<chatVars, buildVars, queryVars, auxVars>>

GenNext == GenDone \/ \E n \in 1..(2 * MaxSse + 2) : GenRead(n)

-----------------------------------------------------------------------------
(* The assistant page (routes/assistant): handleSendMessage                *)

MaxSends == 2     \* sends the page accepts
MaxChunks == 1    \* chunks one stream yields

Sends == 1..MaxSends

\* a StreamChunk: content ("" when absent), done, error
Chunks == [content : {<<>>, <<"a">>}, done : BOOLEAN, error : BOOLEAN]

UserMsg == [role |-> "user", content |-> <<"q">>]
AssistantMsg(text) == [role |-> "assistant", content |-> text]

Ignores_Unselected(selected, isStreaming) == ~selected

\* handleSendMessage's guard: if (!selectedConversationId || isStreaming)
\* return
Ignores(selected, isStreaming) == ~selected \/ isStreaming

\* the body of the for await loop on one chunk: whether it breaks, and
\* streamingContent and messages after it
OnChunk(chunk, streamingContent, msgs) ==
  LET text == streamingContent \o chunk.content IN
  IF chunk.error
  THEN [break |-> TRUE, streamingContent |-> streamingContent, messages |-> msgs]
  ELSE IF chunk.done
  THEN [break |-> FALSE, streamingContent |-> <<>>,
        messages |-> Append(msgs, AssistantMsg(text))]
  ELSE [break |-> FALSE, streamingContent |-> text, messages |-> msgs]

\* the page after mount: no conversation selected, nothing sent
PageInit ==
  page = [selected |-> FALSE, isStreaming |-> FALSE, streamingContent |-> <<>>,
          messages |-> <<>>, tried |-> 0, dropped |-> FALSE, ended |-> {},
          run |-> [k \in Sends |->
                    [pc |-> "unused", n |-> 0, received |-> <<>>]]]

\* handleCreateConversation / handleSelectConversation
SelectConversation ==
  /\ ~page.selected
  /\ page' = [page EXCEPT !.selected = TRUE, !.messages = <<>>]
  /\ UNCHANGED <<tok, userSettings, gen, menu, auth, writer>>
  /\ UNCHANGED <<chatVars, buildVars, queryVars, auxVars>>

\* handleDeleteConversation of the selected conversation
DeleteConversation ==
  /\ page.selected
  /\ page' = [page EXCEPT !.selected = FALSE, !.messages = <<>>]
  /\ UNCHANGED <<tok, userSettings, gen, menu, auth, writer>>
  /\ UNCHANGED <<chatVars, buildVars, queryVars, auxVars>>

\* handleSendMessage up to the call of streamChat; k is the send's number
\* when it is accepted
handleSendMessage(k) ==
  /\ page.tried <= MaxSends
  /\ page.run[k].pc = "unused"
  /\ \A j \in Sends : j < k => page.run[j].pc # "unused"
  /\ page' =
       IF Ignores(page.selected, page.isStreaming)
       THEN [page EXCEPT !.tried = @ + 1,
                         !.dropped = @ \/ page.isStreaming]
       ELSE [page EXCEPT !.tried = @ + 1,
                         !.messages = Append(@, UserMsg),
                         !.isStreaming = TRUE,
                         !.streamingContent = <<>>,
                         !.run[k].pc = "streaming"]
  /\ UNCHANGED <<tok, userSettings, gen, menu, auth, writer>>
  /\ UNCHANGED <<chatVars, buildVars, queryVars, auxVars>>

\* the statements after the loop and after the catch: isStreaming = false
Finished(k, how) ==
  [page EXCEPT !.isStreaming = FALSE, !.ended = @ \cup {how},
               !.run[k] = [pc |-> "done", n |-> 0, received |-> <<>>]]

\* the generator yields a chunk to the loop of send k
Chunk(k, chunk) ==
  /\ page.run[k].pc = "streaming"
  /\ page.run[k].n < MaxChunks
  /\ LET r == OnChunk(chunk, page.streamingContent, page.messages) IN
     page' = IF r.break THEN Finished(k, "error")
             ELSE [page EXCEPT !.streamingContent = r.streamingContent,
                               !.messages = r.messages,
                               !.run[k].n = @ + 1,
                               !.run[k].received = @ \o chunk.content]
  /\ UNCHANGED <<tok, userSettings, gen, menu, auth, writer>>
  /\ UNCHANGED <<chatVars, buildVars, queryVars, auxVars>>

\* the generator returns (end of the response body) or the loop throws
\* (fetch, a response that is not ok, a failed read)
StreamEnds(k, how) ==
  /\ page.run[k].pc = "streaming"
  /\ page' = Finished(k, how)
  /\ UNCHANGED <<tok, userSettings, gen, menu, auth, writer>>
  /\ UNCHANGED <<chatVars, buildVars, queryVars, auxVars>>

\* the stream of send k takes its next step
Advance(k) ==
  \/ \E chunk \in Chunks : Chunk(k, chunk)
  \/ \E how \in {"eof", "throws"} : StreamEnds(k, how)

PageNext ==
  \/ SelectConversation
  \/ DeleteConversation
  \/ \E k \in Sends : handleSendMessage(k)
  \/ \E k \in Sends : Advance(k)

-----------------------------------------------------------------------------
(* The slash-command menu of the editor (suggestionRenderer.ts)            *)

MaxItems == 2     \* items a suggestion can list
MaxEvents == 4    \* editor events handled by the renderer

NoProps == [set |-> FALSE, items |-> 0]
Props(n) == [set |-> TRUE, items |-> n]

\* createMenu: mounts a CommandMenu in the container; a component is named
\* by the container it is mounted in
createMenu(m) ==
  IF m.container = 0 \/ ~m.props.set THEN m
  ELSE [m EXCEPT !.component = m.container, !.mounted = @ \cup {m.container}]

\* updateMenuProps: unmount and mount again
updateMenuProps(m) ==
  IF m.container = 0 \/ ~m.props.set \/ m.component = 0 THEN m
  ELSE createMenu([m EXCEPT !.mounted = @ \ {m.component}])

\* the callback cleanup hands to setTimeout, and cleanup's else branch: it
\* works on the state it finds when it runs
Teardown(m) ==
  [m EXCEPT !.mounted = @ \ {m.component}, !.component = 0,
            !.dom = @ \ {m.container}, !.container = 0,
            !.props = NoProps, !.selectedIndex = 0]

\* cleanup: with a container the teardown is put off by 100 ms
cleanup(m) ==
  IF m.container # 0 THEN [m EXCEPT !.timers = @ + 1] ELSE Teardown(m)

\* the container onStart and showCommandMenu create and append to the body
NewContainer(m) ==
  [m EXCEPT !.container = m.nextId, !.dom = @ \cup {m.nextId},
            !.nextId = @ + 1, !.live = m.nextId]

onStart(m, n) ==
  createMenu(NewContainer([m EXCEPT !.props = Props(n), !.selectedIndex = 0]))

onUpdate(m, n) == updateMenuProps([m EXCEPT !.props = Props(n)])

\* onKeyDown for ArrowUp, ArrowDown and Enter; `ran` tells whether Enter
\* ran the command of an item
onKeyDown(m, key) ==
  IF key = "ArrowUp"
  THEN updateMenuProps([m EXCEPT !.selectedIndex =
                          IF @ - 1 > 0 THEN @ - 1 ELSE 0])
  ELSE IF key = "ArrowDown"
  THEN updateMenuProps([m EXCEPT !.selectedIndex =
                          Min(m.props.items - 1, @ + 1)])
  ELSE [m EXCEPT !.ran = (m.selectedIndex >= 0
                          /\ m.selectedIndex < m.props.items)]

\* showCommandMenu: cleanup, then a new container and menu with the items
\* of the empty query
showCommandMenu(m) ==
  createMenu([NewContainer([cleanup(m) EXCEPT !.selectedIndex = 0])
                EXCEPT !.props = Props(MaxItems)])

\* nothing mounted, no suggestion active
MenuInit ==
  menu = [component |-> 0, container |-> 0, props |-> NoProps,
          selectedIndex |-> 0, dom |-> {}, mounted |-> {}, timers |-> 0,
          nextId |-> 1, live |-> 0, active |-> FALSE, events |-> 0,
          key |-> "", ran |-> FALSE]

\* the next state of the menu after an event of the editor
MenuEvent(m) ==
  /\ menu.events < MaxEvents
  /\ menu' = [m EXCEPT !.events = @ + 1]
  /\ UNCHANGED <<tok, userSettings, gen, page, auth, writer>>
  /\ UNCHANGED <<chatVars, buildVars, queryVars, auxVars>>

\* the suggestion plugin starts a suggestion with n items
Start(n) ==
  /\ ~menu.active
  /\ MenuEvent([onStart(menu, n) EXCEPT !.active = TRUE, !.key = ""])

\* the query changed: the plugin passes the new items
Update(n) ==
  /\ menu.active
  /\ MenuEvent([onUpdate(menu, n) EXCEPT !.key = ""])

KeyDown(key) ==
  /\ menu.active
  /\ MenuEvent([onKeyDown(menu, key) EXCEPT !.key = key])

\* the plugin ends the suggestion: onExit is cleanup
Exit ==
  /\ menu.active
  /\ MenuEvent([cleanup(menu) EXCEPT !.active = FALSE, !.live = 0, !.key = ""])

\* the add button is clicked
ShowCommandMenu == MenuEvent([showCommandMenu(menu) EXCEPT !.key = ""])

\* a timeout set by cleanup expires
TimerFires ==
  /\ menu.timers > 0
  /\ menu' = [Teardown(menu) EXCEPT !.timers = @ - 1, !.key = ""]
  /\ UNCHANGED <<tok, userSettings, gen, page, auth, writer>>
  /\ UNCHANGED <<chatVars, buildVars, queryVars, auxVars>>

MenuNext ==
  \/ \E n \in 0..MaxItems : Start(n) \/ Update(n)
  \/ \E key \in {"ArrowUp", "ArrowDown", "Enter"} : KeyDown(key)
  \/ Exit
  \/ ShowCommandMenu
  \/ TimerFires

\* ---- the AI endpoints and the user they act for (RegisterAIRoutes) -----
\* authRecord == nil: the request carries no authenticated user
NoAuthRecord == "nil"

AuthRecords == Owners \cup {NoAuthRecord}

Endpoints ==
  {"GET settings", "PUT settings", "POST models", "POST vectors/build",
   "POST vectors/build-incremental", "GET vectors/stats"}

\* what a PUT stores for a user, all five keys taken as one value; a user
\* who never saved has ""
SettingValues == {"a"}

\* a request body: whether it binds and passes the handler's validation,
\* the value it carries, and a user id a client may put into it
RequestBodies == [ok : BOOLEAN, value : SettingValues, user : Owners]

\* how the service call of a handler ends: with no error, with an error
\* after it changed something (a batch saved in part), or with an error
\* before it changed anything
CallOutcomes == {"ok", "partial", "failed"}

UserId_FromBody(authRecord, body) == body.user

\* userId := authRecord.Id
UserId(authRecord, body) == authRecord

\* a call into the config store, the embedding service or the provider,
\* with the user id it was given
Touch(service, userId) == [service |-> service, userId |-> userId]

Unauthorized(a) ==
  [a EXCEPT !.status = "Unauthorized", !.response = <<>>, !.touched = {}]

BadRequest(a, touched) ==
  [a EXCEPT !.status = "BadRequest", !.response = <<>>, !.touched = touched]

Ok(a, data, touched) ==
  [a EXCEPT !.status = "OK", !.response = data, !.touched = touched]

\* ConfigService.GetString/GetBool(userId, key): the rows of that user
GetSettings(store, userId) == store[userId]

\* ConfigService.SetBatch(userId, settings): the rows of that user
SetSettings(store, userId, value) == [store EXCEPT ![userId] = value]

\* BuildAllVectors/BuildIncrementalVectors(ctx, userId): the records of that
\* user's entries
BuildVectorsFor(index, userId) ==
  [index EXCEPT ![userId] = Cardinality(EntriesOf(userId))]

\* GetVectorStats(ctx, userId): that user's entries and records
VectorStatsFor(index, userId) ==
  [total |-> Cardinality(EntriesOf(userId)), indexed |-> index[userId]]

\* one request to an endpoint, from the handler's first statement to its
\* return
Route(a, endpoint, authRecord, body, outcome) ==
  LET userId == UserId(authRecord, body)
      config == {Touch("config", userId)}
      embedder == {Touch("embedding", userId)}
  IN
  IF authRecord = NoAuthRecord THEN Unauthorized(a)
  ELSE CASE endpoint = "GET settings" ->
              Ok(a, <<GetSettings(a.store, userId)>>, config)
         [] endpoint = "PUT settings" ->
              IF ~body.ok THEN BadRequest(a, {})
              ELSE IF outcome = "ok"
              THEN [Ok(a, <<"success">>, config) EXCEPT
                      !.store = SetSettings(@, userId, body.value)]
              ELSE IF outcome = "partial"
              THEN [BadRequest(a, config) EXCEPT
                      !.store = SetSettings(@, userId, body.value)]
              ELSE BadRequest(a, config)
         [] endpoint = "POST models" ->
              IF ~body.ok THEN BadRequest(a, {})
              ELSE IF outcome = "ok"
              THEN Ok(a, <<"models">>, {Touch("provider", "")})
              ELSE BadRequest(a, {Touch("provider", "")})
         [] endpoint \in {"POST vectors/build",
                          "POST vectors/build-incremental"} ->
              IF ~a.embeddingService THEN BadRequest(a, {})
              ELSE IF outcome = "ok"
              THEN [Ok(a, <<Cardinality(EntriesOf(userId))>>, embedder)
                      EXCEPT !.index = BuildVectorsFor(@, userId)]
              ELSE IF outcome = "partial"
              THEN [BadRequest(a, embedder) EXCEPT
                      !.index = BuildVectorsFor(@, userId)]
              ELSE BadRequest(a, embedder)
         [] endpoint = "GET vectors/stats" ->
              IF ~a.embeddingService THEN BadRequest(a, {})
              ELSE IF outcome = "ok"
              THEN Ok(a, <<VectorStatsFor(a.index, userId)>>, embedder)
              ELSE BadRequest(a, embedder)

\* no user has settings or records, and no request has been made
AuthInit ==
  \E embeddingService \in BOOLEAN :
    auth = [store |-> [o \in Owners |-> ""],
            index |-> [o \in Owners |-> 0],
            embeddingService |-> embeddingService,
            req |-> <<>>, status |-> "", response |-> <<>>,
            touched |-> {}]

Request(endpoint) ==
  \E authRecord \in AuthRecords, body \in RequestBodies,
     outcome \in CallOutcomes :
    /\ auth' = [Route(auth, endpoint, authRecord, body, outcome) EXCEPT
                  !.req = [endpoint |-> endpoint,
                           authRecord |-> authRecord, body |-> body]]
    /\ UNCHANGED <<tok, userSettings, gen, page, menu, writer>>
    /\ UNCHANGED <<chatVars, buildVars, queryVars, auxVars>>

AuthNext == \E endpoint \in Endpoints : Request(endpoint)

\* nothing outside the core has run
ExtIdle ==
  /\ tok = <<>> /\ userSettings = <<>> /\ gen = <<>>
  /\ page = <<>> /\ menu = <<>> /\ auth = <<>>
  /\ writer = 0

\* no request has been made to the stats, settings and models endpoints
AuxIdle ==
  /\ StatsStart(<<>>, {})
  /\ SettingsStart("transactional")
  /\ mIn = <<>> /\ mOut = <<>>

\* no search has been made
QueryIdle == QueryStart(<<>>, EmptyText, 0)

\* the chat is not running
ChatIdle == ChatStart([k \in AIKeys |-> NoRecord], TRUE, 0, 0, LevelInfo)

\* no build request has been made
BuildIdle ==
  BuildStart([o \in Owners |-> [e \in EntriesOf(o) |-> "a"]], "release")

Init == ChatInit /\ BuildIdle /\ QueryIdle /\ AuxIdle /\ ExtIdle

Next == ChatNext

Spec == Init /\ [][Next]_vars

InitBuild == BuildInit /\ ChatIdle /\ QueryIdle /\ AuxIdle /\ ExtIdle

SpecBuild == InitBuild /\ [][BuildNext]_vars

SpecSolo == InitBuild /\ [][SoloNext]_vars

\* a configured owner with a new conversation: the index is cold or holds
\* more entries than the retrieval limit, the log level is the default or ERROR
RelayInit ==
  \E avail \in {0, RetrievalLimit + MaxOver}, level \in {LevelInfo, LevelError} :
    ChatStart([k \in AIKeys |-> [type |-> "string", str |-> "set"]],
              TRUE, 0, avail, level)

InitRelay == RelayInit /\ BuildIdle /\ QueryIdle /\ AuxIdle /\ ExtIdle

SpecRelay == InitRelay /\ [][ChatNext]_vars

InitQuery == QueryInit /\ ChatIdle /\ BuildIdle /\ AuxIdle /\ ExtIdle

SpecQuery == InitQuery /\ [][QueryNext]_vars

InitJoin == JoinInit /\ ChatIdle /\ BuildIdle /\ AuxIdle /\ ExtIdle

\* a configured owner whose conversation holds HistoryLimit messages and
\* whose entries are all indexed, one of them within reach of retrieval
FrameInit ==
  /\ ChatStart([k \in AIKeys |-> [type |-> "string", str |-> "set"]],
               TRUE, HistoryLimit, 1, LevelInfo)
  /\ entries = [o \in Owners |-> [e \in EntriesOf(o) |-> "a"]]
  /\ vstore = {NewRecord(QueryOwner, e, "a") : e \in EntriesOf(QueryOwner)}
  /\ locks = {}
  /\ req = [r \in Requests |-> IdleReq]
  /\ embedCalls = [o \in Owners |-> 0]
  /\ edits = 0
  /\ registry = {}
  /\ reclaim = "release"
  /\ QueryStart([i \in 1..MaxDiaries |->
                  [entry |-> i, owner |-> QueryOwner, vec |-> <<1, 0>>,
                   date |-> i, live |-> TRUE]],
                <<1, 0>>, MaxDiaries)
  /\ AuxIdle /\ ExtIdle

\* a chat and a search of the owner, in any interleaving
FrameNext == ChatNext \/ QueryNext

SpecFrame == FrameInit /\ [][FrameNext]_vars

SpecJoin == InitJoin /\ [][QueryNext]_vars

InitRegistry ==
  /\ \E policy \in {"release", "eviction"} :
       BuildStart([o \in Owners |-> [e \in EntriesOf(o) |-> "a"]], policy)
  /\ ChatIdle /\ QueryIdle /\ AuxIdle /\ ExtIdle

\* the eviction timer fires while an entry can go
SpecRegistry ==
  InitRegistry /\ [][RegistryNext]_vars /\ \A o \in Owners : WF_vars(Evict(o))

InitStats ==
  /\ StatsInit
  /\ SettingsStart("transactional")
  /\ mIn = <<>> /\ mOut = <<>>
  /\ ChatIdle /\ BuildIdle /\ QueryIdle /\ ExtIdle

\* the build holds either SetBatch of config.go
InitSettings ==
  /\ \E version \in {"perkey", "transactional"} : SettingsStart(version)
  /\ StatsStart(<<>>, {})
  /\ mIn = <<>> /\ mOut = <<>>
  /\ ChatIdle /\ BuildIdle /\ QueryIdle /\ ExtIdle

SpecSettings == InitSettings /\ [][SettingsNext]_vars

InitModels ==
  /\ ModelsInit
  /\ StatsStart(<<>>, {})
  /\ SettingsStart("transactional")
  /\ ChatIdle /\ BuildIdle /\ QueryIdle /\ ExtIdle

SpecModels == InitModels /\ [][Models]_vars

SpecStats == InitStats /\ [][Stats]_vars

\* ExtIdle with one of its conjuncts left to the specification
ExtIdleBut(v) ==
  /\ v = "tok" \/ tok = <<>>
  /\ v = "userSettings" \/ userSettings = <<>>
  /\ v = "gen" \/ gen = <<>>
  /\ v = "page" \/ page = <<>>
  /\ v = "menu" \/ menu = <<>>
  /\ v = "auth" \/ auth = <<>>
  /\ v = "writer" \/ writer = 0

CoreIdle == ChatIdle /\ BuildIdle /\ QueryIdle /\ AuxIdle

InitToken == TokenInit /\ ExtIdleBut("tok") /\ CoreIdle

SpecToken == InitToken /\ [][ValidateToken]_vars

InitAuth == AuthInit /\ ExtIdleBut("auth") /\ CoreIdle

SpecAuth == InitAuth /\ [][AuthNext]_vars

InitMenu == MenuInit /\ ExtIdleBut("menu") /\ CoreIdle

SpecMenu == InitMenu /\ [][MenuNext]_vars

InitPage == PageInit /\ ExtIdleBut("page") /\ CoreIdle

\* a stream that has started delivers its chunks and ends
SpecPage ==
  InitPage /\ [][PageNext]_vars /\ \A k \in Sends : WF_vars(Advance(k))

InitGen == GenInit /\ ExtIdleBut("gen") /\ CoreIdle

SpecGen == InitGen /\ [][GenNext]_vars

\* a configured owner's chat whose sink fails from its first or second
\* Write on
InitSink ==
  /\ ChatStart([k \in AIKeys |-> [type |-> "string", str |-> "set"]],
               TRUE, 0, 0, LevelInfo)
  /\ writer \in {1, 2}
  /\ ExtIdleBut("writer")
  /\ BuildIdle /\ QueryIdle /\ AuxIdle

SpecSink == InitSink /\ [][ChatNext]_vars

\* the build holds either SetBatch of config.go
InitRows ==
  /\ RowsInit /\ ExtIdleBut("userSettings")
  /\ \E version \in {"perkey", "transactional"} : SettingsStart(version)
  /\ StatsStart(<<>>, {})
  /\ mIn = <<>> /\ mOut = <<>>
  /\ ChatIdle /\ BuildIdle /\ QueryIdle

SpecRows == InitRows /\ [][RowsNext]_vars

-----------------------------------------------------------------------------
(* Properties of the build endpoints, checked under SpecBuild              *)

SameOwner(r1, r2) == r1 # r2 /\ OwnerOf(r1) = OwnerOf(r2)

\* C1: at most one build runs per owner at any time; a build call that
\* arrives while a build of the same owner is in flight is never queued or
\* run: it ends at once, answered with BuildInProgress, with no counts and
\* without having written any EmbeddingRecord.
C1_OneBuildPerOwner ==
  /\ \A r1, r2 \in Requests : SameOwner(r1, r2) => ~(Building(r1) /\ Building(r2))
  /\ \A r \in Requests :
       req[r].overlap =>
         /\ req[r].pc = "done"
         /\ req[r].resp.status = 400
         /\ req[r].resp.error = "BuildInProgress"
         /\ req[r].resp.result = ZeroCounts
         /\ req[r].writes = 0
         /\ req[r].counts = ZeroCounts

\* a call was rejected while the other build of the owner is still running
C1_Witness ==
  \E r1, r2 \in Requests :
    /\ SameOwner(r1, r2)
    /\ Building(r1)
    /\ req[r1].writes > 0
    /\ req[r2].overlap

\* C2: when the build-incremental endpoint handles an entry whose stored
\* content-hash equals the hash of the entry's current content, that step
\* makes no embedding provider call, writes no record and counts the entry
\* as unchanged.
C2_UnchangedNotEmbedded ==
  [][\A r \in Requests : \A e \in EntriesOf(OwnerOf(r)) :
       ( /\ Building(r)
         /\ req[r].endpoint = "build-incremental"
         /\ e \in req[r].todo
         /\ e \notin req'[r].todo
         /\ \E x \in vstore : /\ x.owner = OwnerOf(r)
                              /\ x.entry = e
                              /\ x.hash = Hash(entries[OwnerOf(r)][e]) )
       => /\ embedCalls' = embedCalls
          /\ vstore' = vstore
          /\ req'[r].counts.unchanged = req[r].counts.unchanged + 1
          /\ req'[r].counts.processed = req[r].counts.processed
     ]_vars

\* an incremental build re-embedded an edited entry and left another alone
C2_Witness ==
  \E r \in Requests :
    /\ req[r].endpoint = "build-incremental"
    /\ req[r].pc = "done"
    /\ req[r].counts.unchanged >= 1
    /\ req[r].counts.processed >= 1

-----------------------------------------------------------------------------
(* Properties of StreamChat, checked under Spec                            *)

\* a required setting is blank: no record, not a string, or the empty string
Blank(k) == aiConfig[k] # [type |-> "string", str |-> "set"]

ZeroCalls == [retrieval |-> 0, history |-> 0, provider |-> 0]

\* C3: with any of ai.api_key, ai.base_url, ai.chat_model blank, StreamChat
\* never gets past its configuration check: it returns ConfigurationMissing
\* with no text, having made no retrieval call, no history read, no provider
\* call and no sink write.
C3_BlankConfigFailsFirst ==
  (\E k \in AIKeys : Blank(k)) =>
    /\ pc \in {"init", "done"}
    /\ calls = ZeroCalls
    /\ sink = <<>>
    /\ messages = <<>>
    /\ pc = "done" => /\ ret.err = Err("ConfigurationMissing")
                      /\ ret.fullText = <<>>
                      /\ ret.refs = <<>>

\* StreamChat returned with only the chat model blank
C3_Witness ==
  /\ pc = "done"
  /\ ~Blank("ai.api_key")
  /\ ~Blank("ai.base_url")
  /\ Blank("ai.chat_model")

\* a line that carries a chunk whose first choice has non-empty content
Forwardable(l) ==
  /\ l.prefixed
  /\ l.kind = "chunk"
  /\ Len(l.choices) >= 1
  /\ l.choices[1] # <<>>

RECURSIVE ExpectedEvents(_)
\* one content event and one flush per forwardable line, in arrival order
ExpectedEvents(ls) ==
  IF ls = <<>> THEN <<>>
  ELSE (IF Forwardable(Head(ls))
        THEN <<WriteEv(Head(ls).choices[1]), FlushEv>> ELSE <<>>)
       \o ExpectedEvents(Tail(ls))

IsWrite(ev) == ev.op = "write"

\* the contents handed to the sink so far, in order
Forwarded == [i \in 1..Len(SelectSeq(sink, IsWrite)) |->
                SelectSeq(sink, IsWrite)[i].content]

\* C4: whenever the relay is between two reads of an upstream line, the sink
\* has received exactly one content event followed by a flush for each line
\* read so far whose first choice carries non-empty content, in arrival
\* order, and the accumulated text is the concatenation of those contents.
C4_RelayInOrder ==
  /\ sink = ExpectedEvents(scanned)
  /\ fullResponse = Concat(Forwarded)

\* two different tokens were forwarded around a line that forwards nothing
C4_Witness ==
  /\ Len(scanned) = 3
  /\ Forwardable(scanned[1])
  /\ ~Forwardable(scanned[2])
  /\ Forwardable(scanned[3])
  /\ scanned[1].choices[1] # scanned[3].choices[1]
  /\ Len(sink) = 4

\* C5: when the upstream read fails after tokens were forwarded, StreamChat
\* returns the partial text (the tokens already forwarded) together with the
\* StreamInterrupted error.
C5_PartialTextReturned ==
  (pc = "done" /\ ret.err.kind = "StreamInterrupted" /\ sink # <<>>) =>
    ret.fullText = Concat(Forwarded)

\* C6: when ctx is cancelled after the first token was forwarded, no further
\* sink write is made and StreamChat returns a cancellation error with
\* exactly the tokens forwarded before the cancellation as its text.
C6_CancelKeepsForwarded ==
  (pc = "done" /\ cancelled /\ sinkAtCancel > 0) =>
    /\ Len(sink) = sinkAtCancel
    /\ ret.err.kind = "Canceled"
    /\ ret.fullText = Concat(Forwarded)

\* the n most recently created of the conversation's `have` messages
LastMessages(have, n) ==
  [i \in 1..Min(have, n) |-> StoredMessage(have - Min(have, n) + i)]

\* C7: the prior turns sent to the provider are the last min(n, 20) stored
\* messages of the conversation in creation order, followed by the new user
\* message.
C7_LastTwentyTurns ==
  (pc # "init" /\ historyLoaded) =>
    /\ SubSeq(messages, 2, Len(messages) - 1) = LastMessages(stored, HistoryLimit)
    /\ messages[Len(messages)] = UserMessage

NoEntriesPrompt == Msg("system", "persona+no_entries", 0, <<>>)

\* C8: when retrieval fails, StreamChat goes on: it calls the provider with
\* the system prompt for zero entries, never returns the retrieval error,
\* and its referenced-entry list is empty.
C8_RetrievalFailureDegrades ==
  retrievalErr =>
    /\ pc # "init"
    /\ calls.provider = 1
    /\ messages[1] = NoEntriesPrompt
    /\ refs = <<>>
    /\ pc = "done" => /\ ret.err.kind # "RetrievalFailed"
                      /\ ret.refs = <<>>

\* a chat whose retrieval failed ended normally with an answer
C8_Witness ==
  /\ retrievalErr
  /\ pc = "done"
  /\ ret.err = NoErr
  /\ ret.fullText # <<>>

\* C9: a response whose status is not 200 ends StreamChat with
\* UpstreamBadStatus carrying that status and the captured body, no text,
\* and no event written to the sink.
C9_BadStatus ==
  response.status \notin {0, StatusOK} =>
    /\ pc = "done"
    /\ ret.err = [kind |-> "UpstreamBadStatus", status |-> response.status,
                  body |-> response.body]
    /\ ret.fullText = <<>>
    /\ sink = <<>>
    /\ scanned = <<>>

\* the provider answered 500 with a body
C9_Witness ==
  /\ response.status = 500
  /\ response.body # ""
  /\ pc = "done"

\* a `data: [DONE]` line is among the lines read
DoneSeen == \E i \in 1..Len(scanned) : scanned[i].prefixed /\ scanned[i].kind = "done"

\* C10: reading a `data: [DONE]` line ends the stream with the text
\* accumulated so far and no error, nothing is read, forwarded or appended
\* after it, and reading a line without the `data: ` prefix neither writes to
\* the sink nor appends to the text.
C10_DoneEndsStream ==
  [][ /\ DoneSeen' => /\ pc' = "done"
                      /\ ret'.err = NoErr
                      /\ ret'.fullText = fullResponse'
      /\ DoneSeen => UNCHANGED <<scanned, sink, fullResponse>>
      /\ (Len(scanned') = Len(scanned) + 1 /\ ~scanned'[Len(scanned')].prefixed)
           => UNCHANGED <<sink, fullResponse>>
    ]_vars

\* the stream ended at [DONE] with a forwardable chunk still unread, after
\* an unprefixed line that would otherwise carry content
C10_Witness ==
  /\ DoneSeen
  /\ pc = "done"
  /\ buf # <<>>
  /\ Forwardable(Head(buf))
  /\ ~scanned[1].prefixed
  /\ scanned[1].choices # <<>>
  /\ sink = <<>>

-----------------------------------------------------------------------------
(* Properties of StreamChat for a configured owner, checked under SpecRelay *)

\* the ids of the diaries handed to buildSystemPrompt, in their order
RenderedIds == [i \in 1..Len(diariesUsed) |-> diariesUsed[i].id]

\* C11: when the stream ends normally, at `data: [DONE]` or at the end of
\* the input, StreamChat returns no error, the whole accumulated text, and
\* the ids of the entries retrieval returned: at most 5, in rank order, and
\* the very entries rendered into the system prompt.
C11_NormalEndReturnsTextAndRefs ==
  (pc = "done" /\ response.ended \in {"done", "eof"}) =>
    /\ ret.err = NoErr
    /\ ret.fullText = Concat(Forwarded)
    /\ ret.fullText = fullResponse
    /\ ret.refs = RenderedIds
    /\ Len(ret.refs) <= 5
    /\ \A i \in 1..Len(ret.refs) : ret.refs[i] = Diary(i).id
    /\ Len(messages[1].blocks) = Len(ret.refs)
    /\ \A i \in 1..Len(ret.refs) :
         messages[1].blocks[i] = RenderEntry(i, Diary(ret.refs[i]))

\* with more entries indexed than the limit, a chat that ended at the end of
\* the input returned text and five references
C11_Witness ==
  /\ pc = "done"
  /\ response.ended = "eof"
  /\ available > 5
  /\ Len(ret.refs) = 5
  /\ ret.fullText # <<>>

\* a `data: ` line whose payload json.Unmarshal rejects
Malformed(l) == l.prefixed /\ l.kind = "bad"

\* the scanner loop has just taken a malformed line
TakesMalformed ==
  /\ Len(scanned') = Len(scanned) + 1
  /\ Malformed(scanned'[Len(scanned')])

\* C12: a chunk whose payload is not valid JSON is skipped: the stream goes
\* on, no error is returned, nothing is forwarded or appended; and each such
\* chunk adds one to a malformed-chunk count kept for observability (the
\* program's only record of such chunks is its log of parse warnings).
C12_MalformedSkippedAndCounted ==
  [][TakesMalformed =>
       /\ pc' = "stream"
       /\ ret' = ret
       /\ UNCHANGED <<sink, fullResponse>>
       /\ parseWarnings' = parseWarnings + 1
    ]_vars

\* StreamChat went on without diary context and with no referenced entry
ContextFree ==
  /\ diariesUsed = <<>>
  /\ messages[1] = NoEntriesPrompt
  /\ refs = <<>>
  /\ calls.retrieval = 1
  /\ calls.provider = 1
  /\ pc = "done" => ret.refs = <<>> /\ ret.err.kind # "RetrievalFailed"

-----------------------------------------------------------------------------
(* Properties of one owner's builds, checked under SpecSolo                *)

Rejected(r) == req[r].pc = "done" /\ req[r].resp.error = "BuildInProgress"

EndedWith(r, how) == req[r].pc = "done" /\ req[r].resp.error = how

\* C13: the build lock of an owner is released on every way a build can
\* end: after all entries were attempted, with an error, at the deadline or
\* on cancellation. The lock is held exactly while a build of the owner is
\* in flight, so a call that arrives with no build of the owner in flight
\* is never rejected with BuildInProgress.
C13_LockReleasedOnEveryEnd ==
  /\ locks = {OwnerOf(r) : r \in {r2 \in Requests : Building(r2)}}
  /\ \A r \in Requests : Rejected(r) => req[r].overlap

\* a build that hit the deadline and a cancelled build of the same owner
\* both ran, neither rejected
C13_Witness ==
  \E r1, r2 \in Requests :
    /\ SameOwner(r1, r2)
    /\ EndedWith(r1, "DeadlineExceeded")
    /\ EndedWith(r2, "Canceled")
    /\ req[r1].counts.processed > 0
    /\ req[r2].counts.failed > 0

EntryCount(o) == Cardinality(EntriesOf(o))

\* request r called the build endpoint and was answered 200 with its counts
FullBuildDone(r) ==
  /\ req[r].endpoint = "build"
  /\ req[r].pc = "done"
  /\ req[r].resp.status = 200

\* the stats endpoint reports every entry of r's owner indexed, and the
\* build reported every entry processed
AllIndexed(r) ==
  /\ req[r].resp.result.processed = EntryCount(OwnerOf(r))
  /\ GetStats(OwnerOf(r)).status = 200
  /\ GetStats(OwnerOf(r)).stats.indexed = EntryCount(OwnerOf(r))
  /\ GetStats(OwnerOf(r)).stats.missing = 0

\* C15: after BuildAll over an owner's N entries with a provider that never
\* fails (the build reports failed == 0), the build reports processed == N
\* and GetStats reports indexed == N and missing == 0.
C15_FullBuildIndexesAll ==
  \A r \in Requests :
    (FullBuildDone(r) /\ req[r].resp.result.failed = 0) => AllIndexed(r)

\* C15, amended: the same, for a build that skipped no entry for empty
\* content.
C15_FullBuildIndexesNonEmpty ==
  \A r \in Requests :
    ( /\ FullBuildDone(r)
      /\ req[r].resp.result.failed = 0
      /\ req[r].resp.result.skipped = 0 ) => AllIndexed(r)

\* a full build over more than one entry ended with nothing failed or skipped
C15_Witness ==
  \E r \in Requests :
    /\ FullBuildDone(r)
    /\ req[r].resp.result.failed = 0
    /\ req[r].resp.result.skipped = 0
    /\ req[r].resp.result.processed > 1
    /\ GetStats(OwnerOf(r)).stats.indexed = EntryCount(OwnerOf(r))

Sum(c) == c.processed + c.failed + c.skipped + c.unchanged

\* request r's build handles entry e in this step
Handles(r, e) == Building(r) /\ e \in req[r].todo /\ e \notin req'[r].todo

\* request r's build ends in this step, not by deadline or cancellation
EndsNormally(r) ==
  /\ Building(r)
  /\ req'[r].pc = "done"
  /\ req'[r].resp.error \notin {"DeadlineExceeded", "Canceled"}

\* C16: a build counts a provider failure on an entry in `failed` and goes
\* on with the remaining entries; an entry with empty content is counted in
\* `skipped`, without a provider call or a write; and a build that ends
\* without deadline or cancellation has attempted every entry, its counters
\* processed + failed + skipped (+ unchanged for BuildIncremental) adding up
\* to the owner's entry count.
C16_CountersCoverEveryEntry ==
  [][\A r \in Requests :
       /\ \A e \in EntriesOf(OwnerOf(r)) :
            (Handles(r, e) /\ entries[OwnerOf(r)][e] = "") =>
              /\ req'[r].counts.skipped = req[r].counts.skipped + 1
              /\ embedCalls' = embedCalls
              /\ vstore' = vstore
       /\ req'[r].counts.failed = req[r].counts.failed + 1 =>
            /\ req'[r].pc = "building"
            /\ Cardinality(req'[r].todo) = Cardinality(req[r].todo) - 1
            /\ vstore' = vstore
       /\ EndsNormally(r) =>
            /\ req[r].todo = {}
            /\ req'[r].resp.status = 200
            /\ Sum(req'[r].resp.result) = EntryCount(OwnerOf(r))
            /\ req[r].endpoint = "build" => req'[r].resp.result.unchanged = 0
    ]_vars

\* a build ended with its first entry failed at the provider and a later
\* entry processed
C16_Witness ==
  \E r \in Requests :
    /\ req[r].pc = "done"
    /\ req[r].resp.status = 200
    /\ req[r].resp.result.failed = 1
    /\ req[r].resp.result.processed = 1
    /\ RecordsOf(OwnerOf(r), 1) = {}
    /\ entries[OwnerOf(r)][1] # ""

\* C17: when the deadline elapses during BuildAll, the build returns the
\* counts of the entries attempted so far together with DeadlineExceeded,
\* and the caller of the build endpoint receives those partial counts.
C17_DeadlineReturnsPartialCounts ==
  \A r \in Requests :
    (req[r].endpoint = "build" /\ EndedWith(r, "DeadlineExceeded")) =>
      req[r].resp.result = req[r].counts

\* request r called the build-incremental endpoint when every entry of its
\* owner had content and a record, was answered 200, and no entry has been
\* edited since the build started
IncrementalAfterFullIndex(r) ==
  /\ req[r].endpoint = "build-incremental"
  /\ req[r].pc = "done"
  /\ req[r].resp.status = 200
  /\ req[r].snap.full
  /\ req[r].snap.edits = edits

\* with k the number of entries edited since they were indexed: the answer
\* is processed k, unchanged N - k, nothing failed or skipped, after k
\* provider calls; no record is outdated; with k = 0 nothing was written
OnlyEditedReembedded(r) ==
  LET k == req[r].snap.stale
      res == req[r].resp.result
  IN /\ res.processed = k
     /\ res.unchanged = EntryCount(OwnerOf(r)) - k
     /\ res.failed = 0
     /\ res.skipped = 0
     /\ req[r].embeds = k
     /\ GetStats(OwnerOf(r)).stats.outdated = 0
     /\ k = 0 => req[r].writes = 0

-----------------------------------------------------------------------------
(* Properties of the builds of two owners, checked under SpecBuild         *)

\* the records a step wrote, replaced or removed
Touched == (vstore' \ vstore) \cup (vstore \ vstore')

\* C14: builds of different owners are independent: a build call that
\* arrives while no build of its own owner is in flight starts at once,
\* whatever builds other owners have in flight, and a step of a request
\* writes or changes only records of that request's owner.
C14_OwnersIndependent ==
  [][\A r \in Requests :
       /\ (req[r].pc = "idle" /\ req'[r].pc # "idle" /\ ~Overlaps(r))
            => req'[r].pc = "building"
       /\ req'[r] # req[r] => \A x \in Touched : x.owner = OwnerOf(r)
    ]_vars

\* builds of two owners are in flight together, each having written a record
C14_Witness ==
  \E r1, r2 \in Requests :
    /\ OwnerOf(r1) # OwnerOf(r2)
    /\ Building(r1)
    /\ Building(r2)
    /\ req[r1].writes > 0
    /\ req[r2].writes > 0
    /\ \E x \in vstore : x.owner = OwnerOf(r1)
    /\ \E x \in vstore : x.owner = OwnerOf(r2)

-----------------------------------------------------------------------------
(* Properties of the similarity search, checked under SpecQuery            *)

\* C19: every result QuerySimilar returns has at most `limit` elements, its
\* scores never increase along the sequence, and elements of equal score
\* are ordered by entry date, most recent first.
C19_RankedAndTruncated ==
  qOut.pc = "done" =>
    /\ Len(qOut.res) <= qLimit
    /\ \A i, j \in 1..Len(qOut.res) :
         i < j =>
           /\ ~ScoreLess(qOut.res[i].score, qOut.res[j].score)
           /\ ScoreEqual(qOut.res[i].score, qOut.res[j].score)
                => qOut.res[i].date >= qOut.res[j].date

\* of three records two were returned, equal in score and put in date order
\* against the order of their entries, the third cut off by the limit
C19_Witness ==
  /\ qOut.pc = "done"
  /\ Len(qRecords) = 3
  /\ \A i \in 1..3 : qRecords[i].live
  /\ qLimit = 2
  /\ Len(qOut.res) = 2
  /\ ScoreEqual(qOut.res[1].score, qOut.res[2].score)
  /\ qOut.res[1].date > qOut.res[2].date
  /\ qOut.res[1].id > qOut.res[2].id

-----------------------------------------------------------------------------
(* Properties of the Vector Store, checked under SpecBuild                 *)

\* C23: in every reachable state of the Vector Store, after any sequence of
\* BuildAll and BuildIncremental runs, rebuilds of the same entries
\* included, there is at most one EmbeddingRecord per (owner, entry-id,
\* model identifier).
C23_OneRecordPerKey ==
  \A x, y \in vstore :
    (x.owner = y.owner /\ x.entry = y.entry /\ x.model = y.model) => x = y

\* two finished builds of one owner each wrote every entry of the owner, an
\* entry was edited in between, and its record carries the new content
C23_Witness ==
  \E r1, r2 \in Requests :
    /\ r1 # r2
    /\ OwnerOf(r1) = OwnerOf(r2)
    /\ req[r1].pc = "done" /\ req[r2].pc = "done"
    /\ req[r1].writes = EntryCount(OwnerOf(r1))
    /\ req[r2].writes = EntryCount(OwnerOf(r2))
    /\ \E x \in vstore : x.owner = OwnerOf(r1) /\ x.hash = Hash("b")
    /\ Cardinality({x \in vstore : x.owner = OwnerOf(r1)})
         = EntryCount(OwnerOf(r1))

-----------------------------------------------------------------------------
(* Properties of the build-lock registry, checked under SpecRegistry       *)

\* the owner's entry is in the registry with no build of the owner in flight
Stale(o) == o \in registry /\ ~\E r \in Requests : BuildTarget(r) = o /\ Building(r)

-----------------------------------------------------------------------------
(* Properties of single records, checked under SpecBuild                   *)

\* the record is whole: its vector, content-hash and model identifier are
\* those of one write
Whole(x) == \E text \in {"a", "b"} : x = NewRecord(x.owner, x.entry, text)

\* C26: each upsert of an EmbeddingRecord is atomic with respect to that
\* entry's record: in no state of the Vector Store, which is what a
\* QuerySimilar or GetStats running beside a build reads, does a record hold
\* a vector, content-hash and model identifier that come from different
\* writes.
C26_NoTornRecord == \A x \in vstore : Whole(x)

\* a build of an owner indexed before is in flight: it has replaced the
\* record of the edited entry and has another entry still to attempt
C26_Witness ==
  \E r0, r \in Requests :
    /\ OwnerOf(r0) = OwnerOf(r)
    /\ req[r0].pc = "done"
    /\ req[r0].writes = EntryCount(OwnerOf(r0))
    /\ Building(r)
    /\ req[r].todo # {}
    /\ req[r].writes > 0
    /\ \E x \in vstore : x.owner = OwnerOf(r) /\ x.vector = Embed("b")
    /\ \E x \in vstore : x.owner = OwnerOf(r) /\ x.vector = Embed("a")

-----------------------------------------------------------------------------
(* What a chat and a search write, checked under SpecFrame                 *)

\* C24: QuerySimilar and StreamChat leave every EmbeddingRecord unchanged,
\* and StreamChat creates, modifies and deletes no Message record: no step
\* of a chat or of a search changes the Vector Store or the stored messages
\* of the conversation.
C24_ChatAndSearchWriteNothing ==
  [][/\ vstore' = vstore
     /\ qRecords' = qRecords
     /\ stored' = stored
    ]_vars

\* over an indexed owner with a stored history, a chat returned its answer
\* with referenced entries and a search returned results
C24_Witness ==
  /\ vstore # {}
  /\ stored = HistoryLimit
  /\ pc = "done"
  /\ ret.err = NoErr
  /\ ret.fullText # <<>>
  /\ ret.refs # <<>>
  /\ qOut.pc = "done"
  /\ qOut.res # <<>>

-----------------------------------------------------------------------------
(* Properties of the stats endpoint, checked under SpecStats               *)

RecordsFor(e) == {x \in sIndex.recs : x.entry = e}

\* C25: GetStats counts an entry as outdated exactly when it has an
\* EmbeddingRecord whose stored content-hash differs from the hash of the
\* entry's current content, whatever the timestamps of entry and record;
\* missing counts exactly the entries with no record, and indexed + missing
\* == total.
C25_OutdatedByHash ==
  (sOut.pc = "done" /\ sOut.resp.status = 200) =>
    LET st == sOut.resp.stats
        ents == sIndex.ents
    IN
    /\ st.total = Len(ents)
    /\ st.outdated = Cardinality({e \in DOMAIN ents :
          \E x \in RecordsFor(e) : x.hash # Hash(ents[e].content)})
    /\ st.missing = Cardinality({e \in DOMAIN ents : RecordsFor(e) = {}})
    /\ st.indexed + st.missing = st.total

\* one entry's record is newer than the entry and carries another digest,
\* another entry's record has no timestamp and carries the entry's digest:
\* the stats count the first as outdated and not the second
C25_Witness ==
  /\ sOut.pc = "done"
  /\ sOut.resp.status = 200
  /\ sOut.resp.stats.outdated = 1
  /\ sOut.resp.stats.missing = 0
  /\ \E e1, e2 \in DOMAIN sIndex.ents :
       /\ \E x \in RecordsFor(e1) :
            /\ x.hash # Hash(sIndex.ents[e1].content)
            /\ x.updated > sIndex.ents[e1].modified
       /\ \E x \in RecordsFor(e2) :
            /\ x.hash = Hash(sIndex.ents[e2].content)
            /\ x.updated < sIndex.ents[e2].modified

-----------------------------------------------------------------------------
(* Properties of the settings endpoint, checked under SpecSettings         *)

\* the bodies of the requests made so far
BodiesPut == {put[r].body : r \in {r2 \in PutRequests : put[r2].pc # "idle"}}

\* request r is the only one made, and it was answered 400 after SetBatch
\* had saved at least one key
FailedPartWay(r) ==
  /\ \A r2 \in PutRequests \ {r} : put[r2].pc = "idle"
  /\ put[r].pc = "done"
  /\ put[r].status = 400
  /\ put[r].partial

\* the store holds no part of a batch: it is as it was at the start, or it is
\* the whole batch of one of the requests; and after a request that failed
\* part-way it is as it was at the start
WholeBatches ==
  /\ settings \in {NoSettings} \cup BodiesPut
  /\ \A r \in PutRequests : FailedPartWay(r) => settings = NoSettings

BlankValue(v) == v \in {"", "norecord"}

\* C29: after any sequence of PUT /api/ai/settings requests by a user,
\* concurrent ones and ones whose save fails part-way included, the stored
\* settings never have ai.enabled true while any of ai.api_key, ai.base_url,
\* ai.chat_model, ai.embedding_model is blank; a request with enabled true
\* and a blank field is answered 400.
C29_EnabledOnlyWhenConfigured ==
  /\ settings["ai.enabled"] = "true" =>
       \A k \in SettingKeys \ {"ai.enabled"} : ~BlankValue(settings[k])
  /\ \A r \in PutRequests :
       (put[r].pc = "done" /\ Rejects(put[r].body)) => put[r].status = 400

-----------------------------------------------------------------------------
(* The relay with a failing sink, checked under SpecSink                   *)

\* C34: a failing sink write does not stop or fail the relay: when
\* writer.Write fails for a token, processStreamResponse still appends that
\* token and all later tokens to fullText, keeps reading the upstream until
\* [DONE] or end-of-input, and returns no error for the write failure.
C34_WriteFailureIgnored ==
  WriteFails(Writes(sink)) =>
    /\ sink = ExpectedEvents(scanned)
    /\ fullResponse = Concat(Forwarded)
    /\ pc = "done" =>
         /\ DoneSeen \/ response.ended \in {"eof", "error"}
         /\ ret.err.kind \in {"none", "StreamInterrupted", "Canceled"}
         /\ response.ended \in {"done", "eof"} =>
              (ret.err = NoErr /\ ret.fullText = fullResponse)

\* the first Write failed, one more token was read and offered to the
\* sink after it, and the stream ended at [DONE] with the text of both
C34_Witness ==
  /\ writer = 1
  /\ Writes(sink) = 2
  /\ pc = "done" /\ response.ended = "done"
  /\ ret.err = NoErr
  /\ ret.fullText = Concat(Forwarded)

-----------------------------------------------------------------------------
(* The assistant page, checked under SpecPage                              *)

Streaming == {k \in Sends : page.run[k].pc = "streaming"}

\* C36: on the assistant page at most one chat stream is in flight:
\* handleSendMessage does nothing while isStreaming is true or no
\* conversation is selected, and isStreaming always returns to false after
\* a send, whether the stream ended with a done chunk, an error chunk, end
\* of stream without done, or a thrown exception.
C36_OneStreamAtATime ==
  /\ [](Cardinality(Streaming) <= 1 /\ (page.isStreaming <=> Streaming # {}))
  /\ [][(page'.tried # page.tried /\ (page.isStreaming \/ ~page.selected))
         => /\ page'.run = page.run
            /\ page'.messages = page.messages
            /\ page'.isStreaming = page.isStreaming
            /\ page'.streamingContent = page.streamingContent]_vars
  /\ page.isStreaming ~> ~page.isStreaming

\* a send was ignored while the first stream ran; that stream ended with
\* an exception and the second send's stream with an error chunk, and
\* isStreaming is false again
C36_Witness ==
  /\ page.dropped
  /\ page.run[1].pc = "done"
  /\ page.run[2].pc = "done"
  /\ page.ended = {"throws", "error"}
  /\ ~page.isStreaming

\* the messages a step appended
Appended ==
  IF Len(page'.messages) > Len(page.messages)
     /\ SubSeq(page'.messages, 1, Len(page.messages)) = page.messages
  THEN SubSeq(page'.messages, Len(page.messages) + 1, Len(page'.messages))
  ELSE <<>>

\* C37: each send appends exactly one user message, and appends an
\* assistant message only when a done chunk is received, with content equal
\* to the concatenation of all content chunks received before that done
\* chunk; after handleSendMessage finishes, streamingContent is empty, so no
\* text of an ended stream is still shown as streaming.
C37_MessagesAndStreamingText ==
  /\ [][ /\ (\E k \in Sends : page.run[k].pc = "unused"
                               /\ page'.run[k].pc = "streaming")
            => Appended = <<UserMsg>>
         /\ \A k \in Sends :
              (page.run[k].pc = "streaming" /\ page'.run[k] # page.run[k]) =>
                \/ page'.messages = page.messages
                \/ /\ page'.run[k].pc = "streaming"
                   /\ Appended = <<AssistantMsg(page'.run[k].received)>>
       ]_vars
  /\ [](~page.isStreaming => page.streamingContent = <<>>)

-----------------------------------------------------------------------------
(* The slash-command menu, checked under SpecMenu                          *)

\* C38: in the slash-command menu, after any sequence of onStart, onUpdate
\* and onKeyDown (ArrowUp/ArrowDown/Enter) events, selectedIndex satisfies
\* 0 <= selectedIndex <= max(0, items.length - 1) for the current items, so
\* Enter on a non-empty list always runs the command of an existing item.
C38_SelectedIndexInRange ==
  /\ menu.selectedIndex >= 0
  /\ menu.selectedIndex <= (IF menu.props.items > 1 THEN menu.props.items - 1 ELSE 0)
  /\ (menu.key = "Enter" /\ menu.props.items > 0) => menu.ran

\* C39: a command menu opened by onStart or showCommandMenu stays mounted
\* with its container and props until the next onExit/cleanup call for it:
\* the delayed (100 ms) teardown scheduled by an earlier cleanup never
\* unmounts or removes a menu that was opened after that cleanup was called.
C39_OpenMenuStaysMounted ==
  menu.live # 0 =>
    /\ menu.container = menu.live
    /\ menu.live \in menu.dom
    /\ menu.live \in menu.mounted
    /\ menu.props.set

-----------------------------------------------------------------------------
(* The browser's generator, checked under SpecGen                          *)

\* positions of the newlines among the first n characters of the body
Newlines(n) == {i \in 1..n : gen.body[i] = "n"}

\* the line that the newline at position i terminates: the characters
\* after the newline before it
LineEndingAt(i) ==
  LET before == Newlines(i - 1) \cup {0}
      from == CHOOSE j \in before : \A m \in before : m <= j
  IN SubSeq(gen.body, from + 1, i - 1)

\* the position of the k-th newline among the first n characters
NthNewline(k, n) ==
  CHOOSE i \in Newlines(n) : Cardinality({m \in Newlines(n) : m < i}) = k - 1

\* the newline-terminated `data: <json>` lines among the first n characters
DataLines(n) ==
  LET all == [k \in 1..Cardinality(Newlines(n)) |-> LineEndingAt(NthNewline(k, n))]
      good(line) == /\ Len(line) > Len(DataPrefix)
                    /\ line[1] = "d" /\ line[2] = ":"
                    /\ \A i \in 3..Len(line) : line[i] = "j"
      kept == SelectSeq(all, good)
  IN [k \in 1..Len(kept) |-> SubSeq(kept[k], 3, Len(kept[k]))]

\* C35: the generator yields the same sequence of parsed chunks however the
\* response bytes are split across reads: every newline-terminated
\* `data: <json>` line is yielded exactly once and in order, a line split
\* across two reads is reassembled before parsing, and a line with invalid
\* JSON is skipped without ending the iteration.
C35_SplitInvariant ==
  /\ gen.yielded = DataLines(gen.pos)
  /\ gen.pc = "done" => gen.pos = Len(gen.body)

\* a body of a line with invalid JSON and a line with valid JSON was read
\* to its end with a read ending inside a line, and the valid line's chunk
\* was yielded
C35_Witness ==
  /\ gen.pc = "done"
  /\ gen.carried
  /\ gen.body = <<"d", ":", "x", "n", "d", ":", "j", "j", "n">>
  /\ gen.yielded = <<(<<"j", "j">>)>>

-----------------------------------------------------------------------------
(* The message list sent to the provider, checked under Spec               *)

\* C33: every message list StreamChat sends to the provider starts with
\* exactly one system message and ends with a user message whose content is
\* the caller's message, with only stored history messages in between; when
\* loading the conversation history fails the list is just [system, user]
\* and the chat still proceeds.
C33_SystemHistoryUser ==
  /\ calls.provider = 1 =>
       /\ Len(messages) >= 2
       /\ messages[1] = buildSystemPrompt(diariesUsed)
       /\ {i \in 1..Len(messages) : messages[i].role = "system"} = {1}
       /\ messages[Len(messages)] = UserMessage
       /\ \A i \in 2..(Len(messages) - 1) :
            \E j \in 1..stored : messages[i] = StoredMessage(j)
  /\ (calls.history = 1 /\ ~historyLoaded) =>
       /\ calls.provider = 1
       /\ messages = <<buildSystemPrompt(diariesUsed), UserMessage>>

\* a conversation with stored messages whose history could not be loaded
\* got its answer
C33_Witness ==
  /\ calls.history = 1 /\ ~historyLoaded
  /\ stored > 0
  /\ pc = "done" /\ ret.err = NoErr
  /\ Len(messages) = 2

-----------------------------------------------------------------------------
(* Properties of the API token check, checked under SpecToken              *)

\* rows whose stored api.token is the string t
HoldersOf(t) ==
  {i \in 1..Len(tok.rows) : tok.rows[i].value = [type |-> "string", str |-> t]}

\* C31: ValidateTokenAndGetUser returns a non-empty user ID only for a user
\* whose stored api.token equals the presented token and whose api.enabled
\* is true; an empty presented token, a token of a user with API access
\* disabled, and an unknown token all yield the empty user ID.
C31_OnlyValidEnabledTokens ==
  tok.pc = "done" =>
    /\ tok.userId # "" =>
         \E i \in HoldersOf(tok.token) :
           /\ tok.rows[i].user = tok.userId
           /\ tok.enabled[tok.userId] = BoolValue(TRUE)
    /\ tok.token = "" => tok.userId = ""
    /\ (\E i \in HoldersOf(tok.token) :
          tok.enabled[tok.rows[i].user] # BoolValue(TRUE)) => tok.userId = ""
    /\ HoldersOf(tok.token) = {} => tok.userId = ""

-----------------------------------------------------------------------------
(* Properties of the user_settings rows, checked under SpecRows            *)

\* C32: after any interleaving of ConfigService.Set, SetBatch and Delete
\* calls the store holds at most one record per (user, key), a Get that
\* follows a completed Set(user, key, v) with no later write to that key
\* returns v, and Get of a key with no record returns the key's default.
C32_OneRowPerKeyAndReadYourWrite ==
  \A k \in RowKeys :
    /\ Cardinality(RowsOf(userSettings.rows, k)) <= 1
    /\ userSettings.last[k].op = "Set" =>
         GetValues(userSettings.rows, k) = {userSettings.last[k].value}
    /\ RowsOf(userSettings.rows, k) = {} =>
         GetValues(userSettings.rows, k) = {GetDefault(k)}

-----------------------------------------------------------------------------
(* Properties of the models endpoint, checked under SpecModels             *)

\* the base URL without one trailing slash, followed by the models path
ExpectedURL(baseURL) ==
  (IF baseURL # <<>> /\ baseURL[Len(baseURL)] = "/"
   THEN [i \in 1..(Len(baseURL) - 1) |-> baseURL[i]]
   ELSE baseURL) \o <<"/v1/models">>

\* C30: ListModels strips a trailing slash from baseURL before building the
\* request, returns the provider's model list in the provider's order on a
\* 200 response, surfaces a non-200 status as UpstreamBadStatus with status
\* code and body, and surfaces a transport failure as UpstreamUnavailable;
\* the /models endpoint rejects a blank api_key or base_url without any
\* upstream call.
C30_ListModels ==
  mOut.pc = "done" =>
    LET up == mIn.upstream
        a == mOut.resp
    IN
    /\ (mIn.apiKey = "" \/ mIn.baseURL = <<>>) => (a.status = 400 /\ a.calls = 0)
    /\ a.calls \in {0, 1}
    /\ a.calls = 1 =>
         /\ a.url = ExpectedURL(mIn.baseURL)
         /\ up.kind = "transport" =>
              (a.status = 400 /\ a.err.kind = "UpstreamUnavailable")
         /\ (up.kind = "response" /\ up.status # StatusOK) =>
              /\ a.status = 400
              /\ a.err.kind = "UpstreamBadStatus"
              /\ a.err.status = up.status
              /\ a.err.body = up.body
         /\ (up.kind = "response" /\ up.status = StatusOK /\ up.decodes) =>
              (a.status = StatusOK /\ a.models = up.data)

\* a base URL that ends with a slash was requested without it, and the two
\* models of the provider's 200 answer came back in the provider's order
C30_Witness ==
  /\ mOut.pc = "done"
  /\ mIn.baseURL = <<"h", "/">>
  /\ mOut.resp.url = <<"h", "/v1/models">>
  /\ mOut.resp.status = StatusOK
  /\ mOut.resp.models = <<"m2", "m1">>

-----------------------------------------------------------------------------
(* The empty query, checked under SpecQuery                                *)

\* C21: QuerySimilar with empty queryText is rejected with InvalidQuery
\* before the embedding provider is called and before any EmbeddingRecord
\* is read.
C21_EmptyQueryRejectedFirst ==
  (qOut.pc = "done" /\ qOut.ready /\ qQuery = EmptyText) =>
    /\ qOut.err = "InvalidQuery"
    /\ qOut.res = <<>>
    /\ qOut.embeds = 0
    /\ qOut.loads = 0

\* an empty query over a store that holds records was rejected
C21_Witness ==
  /\ qOut.pc = "done"
  /\ qOut.ready
  /\ qQuery = EmptyText
  /\ Len(qRecords) = MaxRecords
  /\ qLimit > 0
  /\ qOut.err = "InvalidQuery"

-----------------------------------------------------------------------------
(* Properties of the similarity search over a shared store, checked under  *)
(* SpecJoin                                                                *)

\* the record a result was joined from
RecordOf(x) == qRecords[x.id]

\* C22: every DiarySearchResult returned by QuerySimilar for owner O refers
\* to a JournalEntry that exists in the entry source and belongs to O; an
\* EmbeddingRecord whose entry has been deleted is left out and causes no
\* error: no call fails once the records are loaded.
C22_ResultsLiveAndOwned ==
  qOut.pc = "done" =>
    /\ \A i \in 1..Len(qOut.res) :
         /\ RecordOf(qOut.res[i]).live
         /\ RecordOf(qOut.res[i]).owner = QueryOwner
    /\ qOut.loads > 0 => qOut.err = "none"

\* the owner's stale record outranked the live one and took a place within
\* the limit, another owner's live record matched the query as well, and the
\* call returned the owner's live record alone, without an error
C22_Witness ==
  /\ qOut.pc = "done"
  /\ qOut.err = "none"
  /\ qLimit = 2
  /\ qQuery = <<1, 0>>
  /\ Len(qRecords) = 3
  /\ \E i, j, k \in 1..3 :
       /\ qRecords[i].owner = QueryOwner /\ ~qRecords[i].live
       /\ qRecords[i].vec = <<1, 0>>
       /\ qRecords[j].owner = QueryOwner /\ qRecords[j].live
       /\ qRecords[j].vec = <<0, 1>>
       /\ qRecords[k].owner # QueryOwner /\ qRecords[k].live
       /\ qRecords[k].vec = <<1, 0>>
       /\ Len(qOut.res) = 1
       /\ qOut.res[1].id = j

\* what a successful request of user o to an endpoint returns, computed from
\* the settings and the index as they were before it
OwnData(a, endpoint, o) ==
  CASE endpoint = "GET settings" -> <<GetSettings(a.store, o)>>
    [] endpoint = "PUT settings" -> <<"success">>
    [] endpoint = "POST models" -> <<"models">>
    [] endpoint = "GET vectors/stats" -> <<VectorStatsFor(a.index, o)>>
    [] OTHER -> <<Cardinality(EntriesOf(o))>>

\* C40: every AI endpoint (settings GET/PUT, models, vectors build,
\* build-incremental, stats) rejects a request that carries no authenticated
\* user before it calls the config store, the embedding service or the
\* provider, and changes nothing; a request of an authenticated user calls
\* the config store and the embedding service with that user's id only,
\* leaves every other owner's settings and index as they were, and returns
\* data of that user only.
C40_AuthenticatedAndScoped ==
  [][LET r == auth'.req IN
     /\ r.authRecord = NoAuthRecord =>
          /\ auth'.status = "Unauthorized"
          /\ auth'.touched = {}
          /\ auth'.response = <<>>
          /\ auth'.store = auth.store
          /\ auth'.index = auth.index
     /\ r.authRecord # NoAuthRecord =>
          /\ auth'.status # "Unauthorized"
          /\ \A t \in auth'.touched :
               t.service \in {"config", "embedding"} =>
                 t.userId = r.authRecord
          /\ \A o \in Owners \ {r.authRecord} :
               /\ auth'.store[o] = auth.store[o]
               /\ auth'.index[o] = auth.index[o]
          /\ auth'.status = "OK" =>
               auth'.response = OwnData(auth, r.endpoint, r.authRecord)]_vars

\* user o1, who has saved no settings and built no index, reads the settings
\* with a body that names o2, who has saved settings and built an index: the
\* answer holds o1's empty settings and o2's are as they were
C40_Witness ==
  /\ auth.req # <<>>
  /\ auth.req.endpoint = "GET settings"
  /\ auth.req.authRecord = "o1"
  /\ auth.req.body.user = "o2"
  /\ auth.status = "OK"
  /\ auth.response = <<"">>
  /\ auth.touched = {Touch("config", "o1")}
  /\ auth.store = [o \in Owners |-> IF o = "o2" THEN "a" ELSE ""]
  /\ auth.index = [o \in Owners |-> IF o = "o2" THEN 1 ELSE 0]

====
